---- MODULE Spec2Model ----
(***************************************************************************)
(* A model of the LLM customer-service agent: the JSON extraction of the   *)
(* structured tools, the LLM-backed tool operations, the batch loop        *)
(* process_email_batch and the file-backed AgentMemory.                    *)
(*                                                                         *)
(* Four specifications share the module:                                   *)
(*   SpecJson   the JSON extraction applied to every bounded reply         *)
(*   SpecTool   one call of one LLM-backed tool operation                  *)
(*   SpecBatch  CustomerServiceAgent.process_email_batch                   *)
(*   SpecMem    AgentMemory and its memory file                            *)
(***************************************************************************)
EXTENDS Integers, Sequences, FiniteSets, TLC

VARIABLES
    content,      \* SpecJson: the reply text handed to the extraction
    jpc,          \* SpecJson: "input" before, "parsed" after the extraction
    extracted,    \* SpecJson: what each of the three copies of the extraction produced
    tool,         \* SpecTool: the tool operation called
    targs,        \* SpecTool: its arguments and, for the RAG tool, its surroundings
    tpc,          \* SpecTool: "called", "invoking" (at self.llm.invoke) or "returned"
    llmCalls,     \* SpecTool: the invocations of the LLM made by the call
    tllm,         \* SpecTool: the outcome of the last invocation of the LLM
    tout,         \* SpecTool: what the call gave its caller
    searches,     \* SpecTool: the k of each similarity_search made
    batch_size,   \* SpecBatch: settings.EMAIL_BATCH_SIZE
    bpc,          \* SpecBatch: the statement process_email_batch is at
    emails,       \* SpecBatch: the fetched list
    idx,          \* SpecBatch: the position in emails of the email of the loop
    summary,      \* SpecBatch: the local summary
    ticket_data,  \* SpecBatch: the local ticket_data
    crm_entry,    \* SpecBatch: the local crm_entry
    calls,        \* SpecBatch: the tool and service calls made, in order
    tickets,      \* SpecBatch: the arguments of each create_ticket call
    submitted,    \* SpecBatch: the argument of each crm_service.create_entry call
    caught,       \* SpecBatch: the exceptions the loop's handler caught
    ticket_id,    \* SpecBatch: what the await of create_ticket gave for the email of the loop
    entry_id,     \* SpecBatch: what the await of create_entry gave for the email of the loop
    every_llm_raised, \* SpecBatch: every invocation of the LLM made so far raised
    mpc,          \* SpecMem: "down" (no AgentMemory object) or "up"
    messages,     \* SpecMem: chat_memory.messages
    customer_contexts, \* SpecMem: AgentMemory.customer_contexts
    file,         \* SpecMem: the memory file agent_memory.json
    nops,         \* SpecMem: the mutating operations made so far, also the clock
    lastWrite,    \* SpecMem: how the last _save_memory of this object ended
    cleared,      \* SpecMem: clear was called at some time
    mcall,        \* SpecMem: the last call of a customer-context method, its arguments and result
    tasks,        \* SpecServe: the background task of each request
    email_batch_size, \* SpecServe: settings.EMAIL_BATCH_SIZE
    replies,      \* SpecServe: the response sent to each request
    endpoint,     \* SpecApi: the POST endpoint requested
    request,      \* SpecApi: the fields of the request body
    apc,          \* SpecApi: where the handling of the request is
    agentCalls,   \* SpecApi: the calls of agent methods, with their arguments
    toolCalls,    \* SpecApi: the calls of tool operations, with their dict
    toolResult,   \* SpecApi: what the tool operation returned
    agentResult,  \* SpecApi: what the agent method returned or raised
    response,     \* SpecApi: the HTTP response
    all_messages, \* SpecHistory: chat_memory.messages, with their customer_id
    hargs,        \* SpecHistory: the arguments of get_relevant_history
    hpc,          \* SpecHistory: "called" or "returned"
    hresult,      \* SpecHistory: the list get_relevant_history returned
    icustomer,    \* SpecCrm: the customer_id of get_recent_interactions
    limit,        \* SpecCrm: its limit
    ipc,          \* SpecCrm: where the call is
    inext,        \* SpecCrm: the i of the loop
    interactions, \* SpecCrm: the list built, then returned
    ierror,       \* SpecCrm: the exception the call caught, if any
    rsize,        \* SpecMail: settings.EMAIL_BATCH_SIZE
    rpc,          \* SpecMail: "fetch", "loop" or "done", where the run of the batch is
    runs,         \* SpecMail: the runs of process_email_batch started so far
    clock,        \* SpecMail: datetime.now() to the second
    fetched,      \* SpecMail: the list the run's get_unprocessed_emails returned
    fpos,         \* SpecMail: the position in fetched of the email of the loop
    marked,       \* SpecMail: the ids mark_as_processed was called with and returned True for
    created       \* SpecMail: the tickets and CRM entries created, each with its email's id

jsonVars == <<content, jpc, extracted>>

toolVars == <<tool, targs, tpc, llmCalls, tllm, tout, searches>>

batchVars == <<batch_size, bpc, emails, idx, summary, ticket_data, crm_entry,
               calls, tickets, submitted, caught, ticket_id, entry_id,
               every_llm_raised>>

memVars == <<mpc, messages, customer_contexts, file, nops, lastWrite, cleared, mcall>>

serveVars == <<tasks, email_batch_size, replies>>

apiVars == <<endpoint, request, apc, agentCalls, toolCalls, toolResult, agentResult, response>>

historyVars == <<all_messages, hargs, hpc, hresult>>

crmVars == <<icustomer, limit, ipc, inext, interactions, ierror>>

mailVars == <<rsize, rpc, runs, clock, fetched, fpos, marked, created>>

vars == <<jsonVars, toolVars, batchVars, memVars, serveVars, apiVars, historyVars, crmVars,
          mailVars>>

\* what the actions of one specification leave alone
notJson == <<toolVars, batchVars, memVars, serveVars, apiVars, historyVars, crmVars,
              mailVars>>

notTool == <<jsonVars, batchVars, memVars, serveVars, apiVars, historyVars, crmVars,
              mailVars>>

notBatch == <<jsonVars, toolVars, memVars, serveVars, apiVars, historyVars, crmVars,
              mailVars>>

notMem == <<jsonVars, toolVars, batchVars, serveVars, apiVars, historyVars, crmVars,
              mailVars>>

notServe == <<jsonVars, toolVars, batchVars, memVars, apiVars, historyVars, crmVars,
              mailVars>>

notApi == <<jsonVars, toolVars, batchVars, memVars, serveVars, historyVars, crmVars,
              mailVars>>

notHistory == <<jsonVars, toolVars, batchVars, memVars, serveVars, apiVars, crmVars,
              mailVars>>

notCrm == <<jsonVars, toolVars, batchVars, memVars, serveVars, apiVars, historyVars,
            mailVars>>

notMail == <<jsonVars, toolVars, batchVars, memVars, serveVars, apiVars, historyVars,
             crmVars>>

(***************************************************************************)
(* Bounds                                                                  *)
(***************************************************************************)
\* longest reply text, in lexical units, handed to the JSON extraction
MaxLen == 5

\* longest reply text, in lexical units, the LLM gives a tool call
ReplyLen == 3

\* largest settings.EMAIL_BATCH_SIZE
MaxBatch == 2

\* most runs of process_email_batch
MaxRuns == 2

\* most mutating operations made on the agent memory
MaxOps == 3

\* most POST /process-email-batch requests
MaxRequests == 2

\* longest reply of the support detection, in characters
DetectLen == 5

\* longest transcript given to get_relevant_history
MaxHistory == 3

\* largest limit given to get_recent_interactions
MaxLimit == 5

(***************************************************************************)
(* Program constants                                                       *)
(***************************************************************************)
\* the mock email service holds five emails
MockEmailCount == 5

\* the max_results of retrieve_information when query_data has none
DefaultMaxResults == 3

\* the canned interactions of CRMService.get_recent_interactions
MockInteractionCount == 3

(***************************************************************************)
(* Reply texts.  A reply is a sequence of lexical units:                   *)
(*   "{" "}"  the braces                                                   *)
(*   "f"      the members  "category": "Technical", "priority": "High"     *)
(*   "n"      a JSON scalar, such as 42                                    *)
(*   "x"      prose that is not JSON                                       *)
(*   "FO"     the fence opening  ```json\n                                 *)
(*   "FC"     the fence closing  \n```                                     *)
(***************************************************************************)
Tokens == {"{", "}", "f", "n", "x", "FO", "FC"}

Contents(n) == UNION {[1..k -> Tokens] : k \in 0..n}

(***************************************************************************)
(* Python values.  Every value is a record of one shape; a dict is its     *)
(* kind "dict" with the keys it holds, a key it does not hold being        *)
(* Absent.                                                                 *)
(***************************************************************************)
Absent == "ABSENT"
AbsentRaw == <<"ABSENT">>

EmptyDict ==
    [kind |-> "dict", category |-> Absent, priority |-> Absent,
     department |-> Absent, title |-> Absent, customer_name |-> Absent,
     error |-> Absent, raw |-> AbsentRaw, text |-> <<>>, truth |-> FALSE]

NumValue == [EmptyDict EXCEPT !.kind = "num"]

NoneValue == [EmptyDict EXCEPT !.kind = "none"]

StrValue(parts) == [EmptyDict EXCEPT !.kind = "str", !.text = parts]

BoolValue(b) == [EmptyDict EXCEPT !.kind = "bool", !.truth = b]

\* the dict a JSON object with the members "f" parses to
CategorizedDict == [EmptyDict EXCEPT !.category = "Technical", !.priority = "High"]

(***************************************************************************)
(* json.loads on a reply text: the value, or JSONDecodeError.              *)
(* The grammar is  value ::= "n" | "{" "f"* "}"  (a repeated member keeps  *)
(* the last occurrence, so any number of "f" gives the same dict).         *)
(***************************************************************************)
JsonLoads(s) ==
    IF s = <<"n">>
    THEN [ok |-> TRUE, value |-> NumValue]
    ELSE IF /\ Len(s) >= 2
            /\ s[1] = "{"
            /\ s[Len(s)] = "}"
            /\ \A i \in 2..(Len(s) - 1) : s[i] = "f"
         THEN [ok |-> TRUE,
               value |-> IF Len(s) > 2 THEN CategorizedDict ELSE EmptyDict]
         ELSE [ok |-> FALSE, value |-> NoneValue]

\* str.find and str.rfind of one unit: the 0-based index, or -1
Find(s, tok) ==
    IF \E i \in 1..Len(s) : s[i] = tok
    THEN (CHOOSE i \in 1..Len(s) : s[i] = tok /\ \A j \in 1..(i - 1) : s[j] # tok) - 1
    ELSE -1

RFind(s, tok) ==
    IF \E i \in 1..Len(s) : s[i] = tok
    THEN (CHOOSE i \in 1..Len(s) : s[i] = tok /\ \A j \in (i + 1)..Len(s) : s[j] # tok) - 1
    ELSE -1

\* the Python slice s[start:stop] for 0 <= start
PySlice(s, start, stop) == SubSeq(s, start + 1, stop)

\* re.search(r'```json\n(.*?)\n```', content, re.DOTALL): the leftmost opening
\* that a closing follows, and the shortest text up to a closing
FenceSearch(s) ==
    LET opens == {i \in 1..Len(s) : s[i] = "FO" /\ \E j \in (i + 1)..Len(s) : s[j] = "FC"}
    IN  IF opens = {}
        THEN [found |-> FALSE, group |-> <<>>]
        ELSE LET i == CHOOSE a \in opens : \A b \in opens : a <= b
                 j == CHOOSE a \in (i + 1)..Len(s) :
                          s[a] = "FC" /\ \A b \in (i + 1)..(a - 1) : s[b] # "FC"
             IN  [found |-> TRUE, group |-> SubSeq(s, i + 1, j - 1)]

Parsed(v, how) == [ok |-> TRUE, value |-> v, via |-> how]

ParseFailed == [ok |-> FALSE, value |-> NoneValue, via |-> "none"]

\* the slice from the first "{" to the last "}", parsed
BraceSliceParse(s) ==
    LET start_idx == Find(s, "{")
        end_idx == RFind(s, "}")
    IN  IF start_idx # -1 /\ end_idx # -1
        THEN LET r == JsonLoads(PySlice(s, start_idx, end_idx + 1))
             IN  IF r.ok THEN Parsed(r.value, "slice") ELSE ParseFailed
        ELSE ParseFailed

\* the content of the fenced block, parsed; a block that does not parse ends
\* the extraction (its JSONDecodeError leaves the inner try)
FencedParse(s) ==
    LET r == JsonLoads(FenceSearch(s).group)
    IN  IF r.ok THEN Parsed(r.value, "fenced") ELSE ParseFailed

\* a mutant: the brace slice is tried before the fenced block
CrmExtractSliceFirst(s) ==
    LET direct == JsonLoads(s)
    IN  IF direct.ok
        THEN Parsed(direct.value, "direct")
        ELSE IF BraceSliceParse(s).ok
             THEN BraceSliceParse(s)
             ELSE IF FenceSearch(s).found THEN FencedParse(s) ELSE ParseFailed

\* CRMEntryGenerator._run, the extraction of the reply
CrmExtract(s) ==
    LET direct == JsonLoads(s)
    IN  IF direct.ok
        THEN Parsed(direct.value, "direct")
        ELSE IF FenceSearch(s).found
             THEN FencedParse(s)
             ELSE BraceSliceParse(s)

\* a mutant: a fenced block that does not parse falls through to the brace
\* slice
CategorizationExtractFallThrough(s) ==
    LET direct == JsonLoads(s)
    IN  IF direct.ok
        THEN Parsed(direct.value, "direct")
        ELSE IF FenceSearch(s).found /\ FencedParse(s).ok
             THEN FencedParse(s)
             ELSE BraceSliceParse(s)

\* TicketRouter._run_categorization, the extraction of the reply
CategorizationExtract(s) ==
    LET direct == JsonLoads(s)
    IN  IF direct.ok
        THEN Parsed(direct.value, "direct")
        ELSE IF FenceSearch(s).found
             THEN FencedParse(s)
             ELSE BraceSliceParse(s)

\* a mutant: the routing copy does not look for a fenced block
RoutingExtractNoFence(s) ==
    LET direct == JsonLoads(s)
    IN  IF direct.ok
        THEN Parsed(direct.value, "direct")
        ELSE BraceSliceParse(s)

\* TicketRouter._run_routing, the extraction of the reply
RoutingExtract(s) ==
    LET direct == JsonLoads(s)
    IN  IF direct.ok
        THEN Parsed(direct.value, "direct")
        ELSE IF FenceSearch(s).found
             THEN FencedParse(s)
             ELSE BraceSliceParse(s)

(***************************************************************************)
(* The LLM.  An invocation raises, or returns a reply whose content is a   *)
(* text.                                                                   *)
(***************************************************************************)
LlmRaised == [raised |-> TRUE, content |-> <<>>]

LlmReply(c) == [raised |-> FALSE, content |-> c]

NoOutcome == [raised |-> FALSE, content |-> <<"none">>]

\* str(e) of an exception of the LLM
LlmError == "llm error"

PyNone == "None"

\* x or default, for an optional string
OrDefault(x, default) == IF x = PyNone THEN default ELSE x

\* what a call gives its caller: a value, or an exception
Return(v) == [exc |-> "none", value |-> v]

Raise(e) == [exc |-> e, value |-> NoneValue]

NotReturned == [exc |-> "none", value |-> NoneValue]

(***************************************************************************)
(* EmailSummarizer                                                         *)
(***************************************************************************)
\* a mutant: the exception of the LLM leaves the tool
SummarizerRunUncaught(out) ==
    IF out.raised THEN Raise("Exception") ELSE Return(StrValue(out.content))

\* EmailSummarizer._run from the invocation of the LLM on
SummarizerRun(out) ==
    IF out.raised
    THEN Return(StrValue(<<"Failed to summarize email: ", "Error summarizing email: ", LlmError>>))
    ELSE Return(StrValue(out.content))

(***************************************************************************)
(* CRMEntryGenerator                                                       *)
(***************************************************************************)
\* CRMEntryGenerator._run from the invocation of the LLM on
CrmRun(customer_name, out) ==
    IF out.raised
    THEN Return([EmptyDict EXCEPT !.customer_name = customer_name,
                                  !.error = "Error generating CRM entry: llm error"])
    ELSE LET entry == CrmExtract(out.content)
         IN  IF entry.ok
             THEN Return(entry.value)
             ELSE Return([EmptyDict EXCEPT !.customer_name = customer_name,
                                           !.raw = out.content,
                                           !.error = "Failed to parse structured CRM entry"])

(***************************************************************************)
(* TicketRouter                                                            *)
(***************************************************************************)
\* a mutant: the failure payloads ignore the caller's suggestions
RunCategorizationFixedDefaults(title, priority, category, out) ==
    IF out.raised
    THEN Return([EmptyDict EXCEPT !.title = title,
                                  !.category = "Unknown",
                                  !.priority = "Medium",
                                  !.department = "Support",
                                  !.error = "Error categorizing ticket: llm error"])
    ELSE LET result == CategorizationExtract(out.content)
         IN  IF result.ok
             THEN Return(result.value)
             ELSE Return([EmptyDict EXCEPT !.title = title,
                                           !.category = "Unknown",
                                           !.priority = "Medium",
                                           !.department = "Support",
                                           !.raw = out.content,
                                           !.error = "Failed to parse structured categorization"])

\* TicketRouter._run_categorization from the invocation of the LLM on
RunCategorization(title, priority, category, out) ==
    IF out.raised
    THEN Return([EmptyDict EXCEPT !.title = title,
                                  !.category = OrDefault(category, "Unknown"),
                                  !.priority = OrDefault(priority, "Medium"),
                                  !.department = "Support",
                                  !.error = "Error categorizing ticket: llm error"])
    ELSE LET result == CategorizationExtract(out.content)
         IN  IF result.ok
             THEN Return(result.value)
             ELSE Return([EmptyDict EXCEPT !.title = title,
                                           !.category = OrDefault(category, "Unknown"),
                                           !.priority = OrDefault(priority, "Medium"),
                                           !.department = "Support",
                                           !.raw = out.content,
                                           !.error = "Failed to parse structured categorization"])

\* TicketRouter._run_routing from the invocation of the LLM on
RunRouting(out) ==
    IF out.raised
    THEN Return([EmptyDict EXCEPT !.department = "Support",
                                  !.priority = "Medium",
                                  !.category = "General",
                                  !.error = "Error routing query: llm error"])
    ELSE LET result == RoutingExtract(out.content)
         IN  IF result.ok
             THEN Return(result.value)
             ELSE Return([EmptyDict EXCEPT !.department = "Support",
                                           !.priority = "Medium",
                                           !.category = "General",
                                           !.raw = out.content,
                                           !.error = "Failed to parse structured routing"])

(***************************************************************************)
(* The reply of the support detection is a text of characters.             *)
(***************************************************************************)
\* str.lower
Lower(s) ==
    [i \in 1..Len(s) |-> CASE s[i] = "Y" -> "y"
                           [] s[i] = "N" -> "n"
                           [] OTHER -> s[i]]

\* str.strip
Strip(s) ==
    LET inked == {i \in 1..Len(s) : s[i] # " "}
    IN  IF inked = {}
        THEN <<>>
        ELSE SubSeq(s, CHOOSE a \in inked : \A b \in inked : a <= b,
                       CHOOSE a \in inked : \A b \in inked : a >= b)

\* sub in s
Contains(s, sub) ==
    \E i \in 0..(Len(s) - Len(sub)) : SubSeq(s, i + 1, i + Len(sub)) = sub

\* s[:n]
Head3(s) == SubSeq(s, 1, IF Len(s) < 3 THEN Len(s) ELSE 3)

\* a mutant: "no" anywhere in the reply makes the result False
IsSupportRequestNoAnywhere(out) ==
    IF out.raised
    THEN Return(BoolValue(TRUE))
    ELSE LET c == Lower(Strip(out.content))
         IN  Return(BoolValue(Contains(c, <<"y", "e", "s">>) /\ ~Contains(c, <<"n", "o">>)))

\* a mutant: an invocation that raised makes the result False
IsSupportRequestFalseOnError(out) ==
    IF out.raised
    THEN Return(BoolValue(FALSE))
    ELSE LET c == Lower(Strip(out.content))
         IN  Return(BoolValue(Contains(c, <<"y", "e", "s">>) /\ ~Contains(Head3(c), <<"n", "o">>)))

\* TicketRouter.is_support_request from the invocation of the LLM on
IsSupportRequest(out) ==
    IF out.raised
    THEN Return(BoolValue(TRUE))
    ELSE LET c == Lower(Strip(out.content))
         IN  Return(BoolValue(Contains(c, <<"y", "e", "s">>) /\ ~Contains(Head3(c), <<"n", "o">>)))

(***************************************************************************)
(* RAGTool                                                                 *)
(***************************************************************************)
\* retrieve_information: query_data.get("max_results", 3)
MaxResults(a) == IF a.max_results.given THEN a.max_results.k ELSE DefaultMaxResults

\* a mutant: the knowledge base is checked before the setting
RagPrecheckCountFirst(a) ==
    IF a.doc_count = 0
    THEN [done |-> TRUE, searches |-> <<>>,
          out |-> Return(StrValue(<<"The knowledge base is empty. Please add documents before using this tool.">>))]
    ELSE IF ~a.rag_enabled
    THEN [done |-> TRUE, searches |-> <<>>,
          out |-> Return(StrValue(<<"RAG functionality is currently disabled. Please enable it in the settings.">>))]
    ELSE IF a.search = "raise"
    THEN [done |-> TRUE, searches |-> <<MaxResults(a)>>,
          out |-> Return(StrValue(<<"Failed to retrieve information: ", "Error retrieving information: ", "search error">>))]
    ELSE IF a.search = "none"
    THEN [done |-> TRUE, searches |-> <<MaxResults(a)>>,
          out |-> Return(StrValue(<<"No relevant information found in the knowledge base.">>))]
    ELSE [done |-> FALSE, searches |-> <<MaxResults(a)>>, out |-> NotReturned]

\* RAGTool._run up to the invocation of the LLM: the similarity searches it
\* makes and the fixed message it returns without invoking the LLM, if any
RagPrecheck(a) ==
    IF ~a.rag_enabled
    THEN [done |-> TRUE, searches |-> <<>>,
          out |-> Return(StrValue(<<"RAG functionality is currently disabled. Please enable it in the settings.">>))]
    ELSE IF a.doc_count = 0
    THEN [done |-> TRUE, searches |-> <<>>,
          out |-> Return(StrValue(<<"The knowledge base is empty. Please add documents before using this tool.">>))]
    ELSE IF a.search = "raise"
    THEN [done |-> TRUE, searches |-> <<MaxResults(a)>>,
          out |-> Return(StrValue(<<"Failed to retrieve information: ", "Error retrieving information: ", "search error">>))]
    ELSE IF a.search = "none"
    THEN [done |-> TRUE, searches |-> <<MaxResults(a)>>,
          out |-> Return(StrValue(<<"No relevant information found in the knowledge base.">>))]
    ELSE [done |-> FALSE, searches |-> <<MaxResults(a)>>, out |-> NotReturned]

\* RAGTool._run from the invocation of the LLM on
RagRun(out) ==
    IF out.raised
    THEN Return(StrValue(<<"Failed to retrieve information: ", "Error retrieving information: ", LlmError>>))
    ELSE Return(StrValue(out.content))

(***************************************************************************)
(* One call of a tool operation                                            *)
(***************************************************************************)
ToolNames == {"summarize_email", "create_crm_entry", "categorize_ticket",
              "route_query", "is_support_request", "retrieve_information"}

TextTools == {"summarize_email", "retrieve_information"}

StructuredTools == {"create_crm_entry", "categorize_ticket", "route_query"}

NoArgs ==
    [title |-> "Login Issue", priority |-> PyNone, category |-> PyNone,
     customer_name |-> "John Smith", rag_enabled |-> TRUE, doc_count |-> 1,
     search |-> "docs", max_results |-> [given |-> FALSE, k |-> 0]]

ArgsOf(t) ==
    CASE t = "categorize_ticket" ->
            {[NoArgs EXCEPT !.priority = p, !.category = c] :
                p \in {PyNone, "Low"}, c \in {PyNone, "Billing"}}
      [] t = "retrieve_information" ->
            {[NoArgs EXCEPT !.rag_enabled = e, !.doc_count = n, !.search = f,
                            !.max_results = m] :
                e \in BOOLEAN, n \in 0..2, f \in {"raise", "none", "docs"},
                m \in {[given |-> FALSE, k |-> 0], [given |-> TRUE, k |-> 1],
                       [given |-> TRUE, k |-> 5]}}
      [] OTHER -> {NoArgs}

\* the characters of the replies of the support detection
DetectChars == {"y", "e", "s", "n", "o", " "}

\* the replies of the support detection: every text of these characters, and
\* some with capitals
DetectReplies ==
    UNION {[1..k -> DetectChars] : k \in 0..DetectLen}
    \cup {<<"Y", "e", "s">>, <<"N", "o">>, <<" ", "Y", "e", "s", " ">>,
          <<"N", "o", " ", "y", "e", "s">>, <<"y", "e", "s", " ", "N", "o">>,
          <<"Y", "e", "s", ",", " ", "n", "o", "w">>}

\* replies longer than ReplyLen that hold a fenced block and braces outside or
\* around it
FencedReplies ==
    {<<"{", "}", "FO", "FC">>,
     <<"FO", "FC", "{", "f", "}">>,
     <<"FO", "x", "FC", "{", "}">>,
     <<"{", "FO", "x", "FC", "}">>,
     <<"FO", "{", "f", "}", "FC", "{", "}">>,
     <<"x", "FO", "n", "FC", "{", "}">>}

OutcomesOf(t) ==
    {LlmRaised} \cup
    {LlmReply(c) : c \in IF t = "is_support_request"
                         THEN DetectReplies
                         ELSE IF t \in StructuredTools
                              THEN Contents(ReplyLen) \cup FencedReplies
                              ELSE Contents(ReplyLen)}

\* the tool operation from the invocation of the LLM on
ToolFinish(t, a, out) ==
    CASE t = "summarize_email" -> SummarizerRun(out)
      [] t = "create_crm_entry" -> CrmRun(a.customer_name, out)
      [] t = "categorize_ticket" -> RunCategorization(a.title, a.priority, a.category, out)
      [] t = "route_query" -> RunRouting(out)
      [] t = "is_support_request" -> IsSupportRequest(out)
      [] OTHER -> RagRun(out)

ToolIdle ==
    /\ tool = "none"
    /\ targs = NoArgs
    /\ tpc = "idle"
    /\ llmCalls = 0
    /\ tllm = NoOutcome
    /\ tout = NotReturned
    /\ searches = <<>>

ToolInit ==
    /\ tool \in ToolNames
    /\ targs \in ArgsOf(tool)
    /\ tpc = "called"
    /\ llmCalls = 0
    /\ tllm = NoOutcome
    /\ tout = NotReturned
    /\ searches = <<>>

\* the tool operation up to self.llm.invoke
ToolEnter ==
    /\ tpc = "called"
    /\ IF tool = "retrieve_information" /\ RagPrecheck(targs).done
       THEN tpc' = "returned" /\ tout' = RagPrecheck(targs).out
       ELSE tpc' = "invoking" /\ tout' = tout
    /\ searches' = IF tool = "retrieve_information" THEN RagPrecheck(targs).searches ELSE <<>>
    /\ UNCHANGED <<tool, targs, llmCalls, tllm>>
    /\ UNCHANGED notTool

\* a mutant: an invocation that raised is made again, once
LlmInvokeRetry ==
    /\ tpc = "invoking"
    /\ \E out \in OutcomesOf(tool) :
        /\ llmCalls' = llmCalls + 1
        /\ tllm' = out
        /\ IF out.raised /\ llmCalls = 0
           THEN tpc' = "invoking" /\ tout' = tout
           ELSE tpc' = "returned" /\ tout' = ToolFinish(tool, targs, out)
    /\ UNCHANGED <<tool, targs, searches>>
    /\ UNCHANGED notTool

\* self.llm.invoke and the rest of the tool operation
LlmInvoke ==
    /\ tpc = "invoking"
    /\ \E out \in OutcomesOf(tool) :
        /\ llmCalls' = llmCalls + 1
        /\ tllm' = out
        /\ tpc' = "returned"
        /\ tout' = ToolFinish(tool, targs, out)
    /\ UNCHANGED <<tool, targs, searches>>
    /\ UNCHANGED notTool

ToolNext ==
    \/ ToolEnter
    \/ LlmInvoke

(***************************************************************************)
(* EmailService: the mock emails                                           *)
(***************************************************************************)
Min(a, b) == IF a < b THEN a ELSE b

\* the i-th mock email of EmailService.get_unprocessed_emails, i from 0
MockEmail(i) ==
    CASE i = 0 -> [id |-> "email_0", subject |-> "Issue with login to the platform",
                   body |-> "body 0", sender |-> "john.smith@example.com",
                   customer_id |-> "CUST12345"]
      [] i = 1 -> [id |-> "email_1", subject |-> "Question about my recent invoice",
                   body |-> "body 1", sender |-> "sarah.johnson@example.com",
                   customer_id |-> "CUST67890"]
      [] i = 2 -> [id |-> "email_2", subject |-> "Suggestion for new feature",
                   body |-> "body 2", sender |-> "michael.chen@example.com",
                   customer_id |-> "CUST24680"]
      [] i = 3 -> [id |-> "email_3", subject |-> "Question about product compatibility",
                   body |-> "body 3", sender |-> "emily.rodriguez@example.com",
                   customer_id |-> PyNone]
      [] OTHER -> [id |-> "email_4", subject |-> "Following up on our conversation",
                   body |-> "body 4", sender |-> "david.wilson@acmecorp.com",
                   customer_id |-> "CUST13579"]

\* EmailService.get_unprocessed_emails: range(min(5, self.batch_size))
GetUnprocessedEmails(size) ==
    [k \in 1..(IF Min(MockEmailCount, size) < 0 THEN 0 ELSE Min(MockEmailCount, size))
        |-> MockEmail(k - 1)]

(***************************************************************************)
(* CustomerServiceAgent: the facade methods the batch calls                *)
(***************************************************************************)
\* CustomerServiceAgent.summarize_email
AgentSummarizeEmail(out) == SummarizerRun(out)

\* CustomerServiceAgent.categorize_ticket: the tool's result, read with .get
\* for the log line before it is returned
AgentCategorizeTicket(title, priority, category, out) ==
    LET result == RunCategorization(title, priority, category, out)
    IN  IF result.value.kind # "dict" THEN Raise("AttributeError") ELSE result

\* CustomerServiceAgent.create_crm_entry
AgentCreateCrmEntry(customer_name, out) == CrmRun(customer_name, out)

\* the arguments of ticket_service.create_ticket in process_email_batch:
\* ticket_data["category"] and ticket_data["priority"] raise KeyError
TicketArguments(email, data) ==
    IF data.category = Absent \/ data.priority = Absent
    THEN Raise("KeyError")
    ELSE [exc |-> "none",
          value |-> [title |-> email.subject, description |-> email.body,
                     category |-> data.category, priority |-> data.priority,
                     customer_id |-> email.customer_id]]

(***************************************************************************)
(* CustomerServiceAgent.process_email_batch                                *)
(***************************************************************************)
\* the replies the LLM gives during a batch
SummaryOutcomes == {LlmRaised, LlmReply(<<"x">>)}

DetectOutcomes == {LlmRaised, LlmReply(<<"Y", "e", "s">>), LlmReply(<<"N", "o">>)}

CategorizeOutcomes ==
    {LlmRaised, LlmReply(<<"{", "f", "}">>), LlmReply(<<"{", "}">>),
     LlmReply(<<"n">>), LlmReply(<<"x">>)}

CrmOutcomes == {LlmRaised, LlmReply(<<"{", "}">>), LlmReply(<<"x">>)}

\* what a service call returns: an id (True for mark_as_processed), or the
\* None (False) of its except branch
ServiceResults == {"ok", "failed"}

\* a mutant: the CRM entry is submitted before the ticket is created
NextStepCrmFirst(step, support) ==
    CASE step = "summarize_email" -> "is_support_request"
      [] step = "is_support_request" -> "create_crm_entry"
      [] step = "create_crm_entry" -> "create_entry"
      [] step = "create_entry" -> IF support THEN "categorize_ticket" ELSE "mark_as_processed"
      [] step = "categorize_ticket" -> "create_ticket"
      [] step = "create_ticket" -> "mark_as_processed"
      [] OTHER -> "next"

\* the statement that follows a step of the try body which did not raise
NextStep(step, support) ==
    CASE step = "summarize_email" -> "is_support_request"
      [] step = "is_support_request" ->
            IF support THEN "categorize_ticket" ELSE "create_crm_entry"
      [] step = "categorize_ticket" -> "create_ticket"
      [] step = "create_ticket" -> "create_crm_entry"
      [] step = "create_crm_entry" -> "create_entry"
      [] step = "create_entry" -> "mark_as_processed"
      [] OTHER -> "next"

Call(op, ret) == [op |-> op, pos |-> idx, id |-> emails[idx].id, ret |-> ret]

\* whether is_support_request returned True for the email of the loop
Support ==
    \E k \in 1..Len(calls) :
        calls[k].pos = idx /\ calls[k].op = "is_support_request" /\ calls[k].ret = "True"

\* a mutant: after the last email the loop passes over the list again
AdvanceAnotherPass ==
    /\ idx' = IF idx < Len(emails) THEN idx + 1 ELSE 1
    /\ bpc' = "summarize_email"
    /\ summary' = NoneValue
    /\ ticket_data' = NoneValue
    /\ crm_entry' = NoneValue
    /\ ticket_id' = "none"
    /\ entry_id' = "none"

\* the for loop takes the next email, or the batch completes
Advance ==
    /\ IF idx < Len(emails)
       THEN idx' = idx + 1 /\ bpc' = "summarize_email"
       ELSE idx' = idx /\ bpc' = "done"
    /\ summary' = NoneValue
    /\ ticket_data' = NoneValue
    /\ crm_entry' = NoneValue
    /\ ticket_id' = "none"
    /\ entry_id' = "none"

\* a step that did not raise goes on to the next statement of the try body
GoOn(step, support) ==
    /\ bpc' = NextStep(step, support)
    /\ idx' = idx

\* a mutant: the handler lets the exception leave the batch
CaughtAbort(step, e, made) ==
    /\ caught' = Append(caught, [pos |-> idx, op |-> step, exc |-> e])
    /\ calls' = calls \o made
    /\ idx' = idx
    /\ bpc' = "done"
    /\ summary' = NoneValue
    /\ ticket_data' = NoneValue
    /\ crm_entry' = NoneValue
    /\ ticket_id' = "none"
    /\ entry_id' = "none"
    /\ UNCHANGED <<tickets, submitted>>

\* a mutant: the handler marks the email as processed
CaughtAndMarked(step, e, made) ==
    /\ caught' = Append(caught, [pos |-> idx, op |-> step, exc |-> e])
    /\ calls' = calls \o made \o <<Call("mark_as_processed", "ok")>>
    /\ Advance
    /\ UNCHANGED <<tickets, submitted>>

\* except Exception as e: the error is logged and the loop goes on; made are
\* the calls the raising statement made before it raised
Caught(step, e, made) ==
    /\ caught' = Append(caught, [pos |-> idx, op |-> step, exc |-> e])
    /\ calls' = calls \o made
    /\ Advance
    /\ UNCHANGED <<tickets, submitted>>

BatchIdle ==
    /\ batch_size = 0
    /\ bpc = "idle"
    /\ emails = <<>>
    /\ idx = 0
    /\ summary = NoneValue
    /\ ticket_data = NoneValue
    /\ crm_entry = NoneValue
    /\ calls = <<>>
    /\ tickets = <<>>
    /\ submitted = <<>>
    /\ caught = <<>>
    /\ ticket_id = "none"
    /\ entry_id = "none"
    /\ every_llm_raised = TRUE

BatchInit ==
    /\ batch_size \in 0..MaxBatch
    /\ bpc = "fetch"
    /\ emails = <<>>
    /\ idx = 0
    /\ summary = NoneValue
    /\ ticket_data = NoneValue
    /\ crm_entry = NoneValue
    /\ calls = <<>>
    /\ tickets = <<>>
    /\ submitted = <<>>
    /\ caught = <<>>
    /\ ticket_id = "none"
    /\ entry_id = "none"
    /\ every_llm_raised = TRUE

\* emails = await self.email_service.get_unprocessed_emails()
Fetch ==
    /\ bpc = "fetch"
    /\ emails' = GetUnprocessedEmails(batch_size)
    /\ IF Len(emails') > 0
       THEN idx' = 1 /\ bpc' = "summarize_email"
       ELSE idx' = 0 /\ bpc' = "done"
    /\ UNCHANGED <<batch_size, summary, ticket_data, crm_entry, calls, tickets,
                   submitted, caught>>
    /\ UNCHANGED <<ticket_id, entry_id, every_llm_raised>>
    /\ UNCHANGED notBatch

\* summary = self.summarize_email(...)
Summarize ==
    /\ bpc = "summarize_email"
    /\ \E out \in SummaryOutcomes :
        /\ every_llm_raised' = (every_llm_raised /\ out.raised)
        /\ LET r == AgentSummarizeEmail(out)
           IN  IF r.exc # "none"
               THEN Caught("summarize_email", r.exc, <<Call("summarize_email", "")>>)
               ELSE /\ summary' = r.value
                    /\ calls' = Append(calls, Call("summarize_email", ""))
                    /\ GoOn("summarize_email", FALSE)
                    /\ UNCHANGED <<ticket_data, crm_entry, tickets, submitted, caught, ticket_id, entry_id>>
    /\ UNCHANGED <<batch_size, emails>>
    /\ UNCHANGED notBatch

\* if self.ticket_router.is_support_request(email["subject"], email["body"])
Detect ==
    /\ bpc = "is_support_request"
    /\ \E out \in DetectOutcomes :
        /\ every_llm_raised' = (every_llm_raised /\ out.raised)
        /\ LET r == IsSupportRequest(out)
           IN  IF r.exc # "none"
               THEN Caught("is_support_request", r.exc, <<Call("is_support_request", "")>>)
               ELSE /\ calls' = Append(calls, Call("is_support_request",
                                                   IF r.value.truth THEN "True" ELSE "False"))
                    /\ GoOn("is_support_request", r.value.truth)
                    /\ UNCHANGED <<summary, ticket_data, crm_entry, tickets, submitted, caught, ticket_id, entry_id>>
    /\ UNCHANGED <<batch_size, emails>>
    /\ UNCHANGED notBatch

\* ticket_data = self.categorize_ticket(title, description, customer_id)
Categorize ==
    /\ bpc = "categorize_ticket"
    /\ \E out \in CategorizeOutcomes :
        /\ every_llm_raised' = (every_llm_raised /\ out.raised)
        /\ LET r == AgentCategorizeTicket(emails[idx].subject, PyNone, PyNone, out)
           IN  IF r.exc # "none"
               THEN Caught("categorize_ticket", r.exc, <<Call("categorize_ticket", "")>>)
               ELSE /\ ticket_data' = r.value
                    /\ calls' = Append(calls, Call("categorize_ticket", ""))
                    /\ GoOn("categorize_ticket", Support)
                    /\ UNCHANGED <<summary, crm_entry, tickets, submitted, caught, ticket_id, entry_id>>
    /\ UNCHANGED <<batch_size, emails>>
    /\ UNCHANGED notBatch

\* await self.ticket_service.create_ticket(title, description, category,
\* priority, customer_id): the arguments are evaluated, then the call is made
CreateTicket ==
    /\ bpc = "create_ticket"
    /\ LET args == TicketArguments(emails[idx], ticket_data)
       IN  IF args.exc # "none"
           THEN Caught("create_ticket", args.exc, <<>>)
           ELSE \E res \in ServiceResults :
                   /\ calls' = Append(calls, Call("create_ticket", ""))
                   /\ tickets' = Append(tickets, [pos |-> idx, args |-> args.value])
                   /\ ticket_id' = res
                   /\ GoOn("create_ticket", Support)
                   /\ UNCHANGED <<summary, ticket_data, crm_entry, submitted, caught, entry_id>>
    /\ UNCHANGED <<batch_size, emails>>
    /\ UNCHANGED every_llm_raised
    /\ UNCHANGED notBatch

\* crm_entry = self.create_crm_entry(customer_name, interaction_details,
\* additional_info)
CrmEntry ==
    /\ bpc = "create_crm_entry"
    /\ \E out \in CrmOutcomes :
        /\ every_llm_raised' = (every_llm_raised /\ out.raised)
        /\ LET r == AgentCreateCrmEntry(emails[idx].sender, out)
           IN  IF r.exc # "none"
               THEN Caught("create_crm_entry", r.exc, <<Call("create_crm_entry", "")>>)
               ELSE /\ crm_entry' = r.value
                    /\ calls' = Append(calls, Call("create_crm_entry", ""))
                    /\ GoOn("create_crm_entry", Support)
                    /\ UNCHANGED <<summary, ticket_data, tickets, submitted, caught, ticket_id, entry_id>>
    /\ UNCHANGED <<batch_size, emails>>
    /\ UNCHANGED notBatch

\* await self.crm_service.create_entry(crm_entry)
Submit ==
    /\ bpc = "create_entry"
    /\ \E res \in ServiceResults :
        /\ calls' = Append(calls, Call("create_entry", ""))
        /\ submitted' = Append(submitted, [pos |-> idx, entry |-> crm_entry])
        /\ entry_id' = res
        /\ GoOn("create_entry", Support)
    /\ UNCHANGED <<batch_size, emails, summary, ticket_data, crm_entry, tickets, caught, ticket_id>>
    /\ UNCHANGED every_llm_raised
    /\ UNCHANGED notBatch

\* a mutant: mark_as_processed is called without await, the coroutine is not
\* run and the loop goes on
MarkUnawaited ==
    /\ bpc = "mark_as_processed"
    /\ calls' = calls
    /\ Advance
    /\ UNCHANGED <<batch_size, emails, tickets, submitted, caught>>
    /\ UNCHANGED every_llm_raised
    /\ UNCHANGED notBatch

\* await self.email_service.mark_as_processed(email["id"]), the last statement
\* of the try body
Mark ==
    /\ bpc = "mark_as_processed"
    /\ \E res \in ServiceResults :
        /\ calls' = Append(calls, Call("mark_as_processed", ""))
        /\ IF NextStep("mark_as_processed", Support) = "next"
           THEN Advance
           ELSE GoOn("mark_as_processed", Support) /\ UNCHANGED <<summary, ticket_data, crm_entry, ticket_id, entry_id>>
    /\ UNCHANGED <<batch_size, emails, tickets, submitted, caught>>
    /\ UNCHANGED every_llm_raised
    /\ UNCHANGED notBatch

BatchNext ==
    \/ Fetch
    \/ Summarize
    \/ Detect
    \/ Categorize
    \/ CreateTicket
    \/ CrmEntry
    \/ Submit
    \/ Mark

(***************************************************************************)
(* AgentMemory.  A message in memory is an object of a message class; a    *)
(* message in the file is a record with a "type" and a "content".  A       *)
(* customer context is a dict of the keys tier, lang and last_updated; a   *)
(* customer without an entry has present = FALSE.                          *)
(***************************************************************************)
Customers == {"c1", "c2"}

NoTime == <<"ABSENT">>

Time(n) == <<"t", n>>

NoContext ==
    [present |-> FALSE, tier |-> Absent, lang |-> Absent, last_updated |-> NoTime]

NoContexts == [c \in Customers |-> NoContext]

\* the context_data given to update_customer_context
UpdateDicts ==
    {[tier |-> "gold", lang |-> Absent, last_updated |-> NoTime],
     [tier |-> "free", lang |-> "en", last_updated |-> <<"user">>]}

\* the input and output of a conversation turn
Turns == {[input |-> "q1", output |-> "a1"], [input |-> "q2", output |-> "a1"]}

\* how writing the file ends: written, open() raised and the file is as it
\* was, or the write raised after open() truncated the file
WriteOutcomes == {"ok", "open_failed", "write_failed"}

MissingFile ==
    [state |-> "missing", customer_contexts |-> NoContexts, messages |-> <<>>,
     last_updated |-> NoTime, origin |-> "none"]

CorruptFile ==
    [state |-> "corrupt", customer_contexts |-> NoContexts, messages |-> <<>>,
     last_updated |-> NoTime, origin |-> "save"]

\* a file an earlier run of _save_memory wrote
EarlierFile ==
    [state |-> "ok",
     customer_contexts |->
        [NoContexts EXCEPT !["c1"] = [present |-> TRUE, tier |-> "gold", lang |-> Absent,
                                      last_updated |-> Time(0)]],
     messages |-> <<[type |-> "system", content |-> "s0"],
                    [type |-> "human", content |-> "q1"],
                    [type |-> "ai", content |-> "a1"]>>,
     last_updated |-> Time(0), origin |-> "save"]

\* a file of another origin: a message of an unknown type, and a message
\* record without a content
ForeignFile ==
    [state |-> "ok", customer_contexts |-> NoContexts,
     messages |-> <<[type |-> "human", content |-> "q1"],
                    [type |-> "function", content |-> "f0"],
                    [type |-> "ai", content |-> Absent],
                    [type |-> "system", content |-> "s0"]>>,
     last_updated |-> Time(0), origin |-> "foreign"]

InitialFiles == {MissingFile, CorruptFile, EarlierFile, ForeignFile}

\* _save_memory: the "type" written for a message, by isinstance
TypeOfClass(cls) ==
    CASE cls = "HumanMessage" -> "human"
      [] cls = "AIMessage" -> "ai"
      [] cls = "SystemMessage" -> "system"
      [] OTHER -> Absent

\* _save_memory: the messages in serializable form, a message of another
\* class left out
SerializedMessages(msgs) ==
    LET Known(m) == TypeOfClass(m.cls) # Absent
        kept == SelectSeq(msgs, Known)
    IN  [k \in 1..Len(kept) |-> [type |-> TypeOfClass(kept[k].cls), content |-> kept[k].content]]

\* _save_memory: the file after the write
WriteFile(old, msgs, ctxs, outcome, now) ==
    CASE outcome = "ok" ->
            [state |-> "ok", customer_contexts |-> ctxs,
             messages |-> SerializedMessages(msgs),
             last_updated |-> Time(now), origin |-> "save"]
      [] outcome = "open_failed" -> old
      [] OTHER -> CorruptFile

\* a mutant: an AI message is loaded as a human message
ClassOfTypeAiAsHuman(type) ==
    CASE type = "human" -> "HumanMessage"
      [] type = "ai" -> "HumanMessage"
      [] type = "system" -> "SystemMessage"
      [] OTHER -> Absent

\* _load_memory: the class of the message added for a "type"
ClassOfType(type) ==
    CASE type = "human" -> "HumanMessage"
      [] type = "ai" -> "AIMessage"
      [] type = "system" -> "SystemMessage"
      [] OTHER -> Absent

\* _load_memory: the message records read before one raises KeyError (a
\* record without "type", or one of a known type without "content")
ReadableRecords(recs) ==
    LET bad == {k \in 1..Len(recs) :
                    \/ recs[k].type = Absent
                    \/ ClassOfType(recs[k].type) # Absent /\ recs[k].content = Absent}
    IN  IF bad = {}
        THEN recs
        ELSE SubSeq(recs, 1, (CHOOSE a \in bad : \A b \in bad : a <= b) - 1)

\* _load_memory: the messages added to chat_memory
LoadedMessages(recs) ==
    LET Known(r) == ClassOfType(r.type) # Absent
        kept == SelectSeq(ReadableRecords(recs), Known)
    IN  [k \in 1..Len(kept) |-> [cls |-> ClassOfType(kept[k].type), content |-> kept[k].content]]

\* __init__ and _load_memory: the memory of a new AgentMemory
LoadMemory(f) ==
    IF f.state = "ok"
    THEN [customer_contexts |-> f.customer_contexts, messages |-> LoadedMessages(f.messages)]
    ELSE [customer_contexts |-> NoContexts, messages |-> <<>>]

\* a mutant: the new data replaces the customer's context
MergedContextReplaced(old, d, now) ==
    [present |-> TRUE, tier |-> d.tier, lang |-> d.lang, last_updated |-> Time(now)]

\* a mutant: a last_updated given in the new data is kept
MergedContextGivenTime(old, d, now) ==
    [present |-> TRUE,
     tier |-> IF d.tier # Absent THEN d.tier ELSE old.tier,
     lang |-> IF d.lang # Absent THEN d.lang ELSE old.lang,
     last_updated |-> IF d.last_updated # NoTime THEN d.last_updated ELSE Time(now)]

\* update_customer_context: the customer's context after dict.update and the
\* timestamp
MergedContext(old, d, now) ==
    [present |-> TRUE,
     tier |-> IF d.tier # Absent THEN d.tier ELSE old.tier,
     lang |-> IF d.lang # Absent THEN d.lang ELSE old.lang,
     last_updated |-> Time(now)]

\* a dict without a key
NoData == [tier |-> Absent, lang |-> Absent, last_updated |-> NoTime]

NoCall == [op |-> "none", customer |-> "none", data |-> NoData, result |-> NoData]

\* self.customer_contexts.get(customer_id, {})
ContextOrEmpty(ctxs, c) ==
    IF ctxs[c].present
    THEN [tier |-> ctxs[c].tier, lang |-> ctxs[c].lang, last_updated |-> ctxs[c].last_updated]
    ELSE NoData

MemIdle ==
    /\ mpc = "idle"
    /\ messages = <<>>
    /\ customer_contexts = NoContexts
    /\ file = MissingFile
    /\ nops = 0
    /\ lastWrite = "none"
    /\ cleared = FALSE
    /\ mcall = NoCall

MemInit ==
    /\ mpc = "down"
    /\ messages = <<>>
    /\ customer_contexts = NoContexts
    /\ file \in InitialFiles
    /\ nops = 0
    /\ lastWrite = "none"
    /\ cleared = FALSE
    /\ mcall = NoCall

\* AgentMemory.__init__
Construct ==
    /\ mpc = "down"
    /\ mpc' = "up"
    /\ messages' = LoadMemory(file).messages
    /\ customer_contexts' = LoadMemory(file).customer_contexts
    /\ lastWrite' = "none"
    /\ mcall' = NoCall
    /\ UNCHANGED <<file, nops, cleared>>
    /\ UNCHANGED notMem

\* the process ends: the AgentMemory object is gone, the file stays
Shutdown ==
    /\ mpc = "up"
    /\ mpc' = "down"
    /\ messages' = <<>>
    /\ customer_contexts' = NoContexts
    /\ lastWrite' = "none"
    /\ mcall' = NoCall
    /\ UNCHANGED <<file, nops, cleared>>
    /\ UNCHANGED notMem

\* AgentMemory.save_context
SaveContext ==
    /\ mpc = "up"
    /\ nops < MaxOps
    /\ \E t \in Turns, w \in WriteOutcomes :
        /\ messages' = messages \o <<[cls |-> "HumanMessage", content |-> t.input],
                                     [cls |-> "AIMessage", content |-> t.output]>>
        /\ file' = WriteFile(file, messages', customer_contexts, w, nops + 1)
        /\ lastWrite' = w
    /\ nops' = nops + 1
    /\ mcall' = NoCall
    /\ UNCHANGED <<mpc, customer_contexts, cleared>>
    /\ UNCHANGED notMem

\* a mutant: clear does not save
ClearUnsaved ==
    /\ mpc = "up"
    /\ nops < MaxOps
    /\ messages' = <<>>
    /\ nops' = nops + 1
    /\ cleared' = TRUE
    /\ mcall' = NoCall
    /\ UNCHANGED <<mpc, customer_contexts, file, lastWrite>>
    /\ UNCHANGED notMem

\* AgentMemory.clear
Clear ==
    /\ mpc = "up"
    /\ nops < MaxOps
    /\ messages' = <<>>
    /\ \E w \in WriteOutcomes :
        /\ file' = WriteFile(file, messages', customer_contexts, w, nops + 1)
        /\ lastWrite' = w
    /\ nops' = nops + 1
    /\ cleared' = TRUE
    /\ mcall' = NoCall
    /\ UNCHANGED <<mpc, customer_contexts>>
    /\ UNCHANGED notMem

\* AgentMemory.update_customer_context
UpdateCustomerContext ==
    /\ mpc = "up"
    /\ nops < MaxOps
    /\ \E c \in Customers, d \in UpdateDicts, w \in WriteOutcomes :
        /\ customer_contexts' =
              [customer_contexts EXCEPT ![c] = MergedContext(customer_contexts[c], d, nops + 1)]
        /\ file' = WriteFile(file, messages, customer_contexts', w, nops + 1)
        /\ lastWrite' = w
        /\ mcall' = [op |-> "update_customer_context", customer |-> c, data |-> d,
                     result |-> NoData]
    /\ nops' = nops + 1
    /\ UNCHANGED <<mpc, messages, cleared>>
    /\ UNCHANGED notMem

\* AgentMemory.get_customer_context
GetCustomerContext ==
    /\ mpc = "up"
    /\ \E c \in Customers :
        mcall' = [op |-> "get_customer_context", customer |-> c, data |-> NoData,
                  result |-> ContextOrEmpty(customer_contexts, c)]
    /\ UNCHANGED <<mpc, messages, customer_contexts, file, nops, lastWrite, cleared>>
    /\ UNCHANGED notMem

MemNext ==
    \/ Construct
    \/ Shutdown
    \/ SaveContext
    \/ Clear
    \/ UpdateCustomerContext
    \/ GetCustomerContext

(***************************************************************************)
(* POST /process-email-batch.  The endpoint adds agent.process_email_batch *)
(* as a background task of the request and responds; the event loop runs   *)
(* one task at a time and switches tasks only where the running one        *)
(* awaits: the four service calls of process_email_batch, each of which    *)
(* awaits asyncio.sleep.                                                   *)
(***************************************************************************)
Requests == 1..MaxRequests

NoTask == [pc |-> "none", at |-> "none", idx |-> 0]

Suspended(at, i) == [pc |-> "suspended", at |-> at, idx |-> i]

DoneTask == [pc |-> "done", at |-> "none", idx |-> 0]

NoReply == [status |-> 0, message |-> "none"]

\* return {"message": "Email batch processing started"}
BatchStarted == [status |-> 200, message |-> "Email batch processing started"]

\* where process_email_batch awaits next when its loop reaches the email at
\* position i of n: the emails before the one awaited for raised before their
\* first await (caught, the loop went on); with no email left it completes
NextAwait(i, n) ==
    {Suspended(at, j) : at \in {"create_ticket", "create_entry"}, j \in i..n}
    \cup {DoneTask}

\* where process_email_batch awaits next after the await it is suspended at
\* has returned
AfterAwait(t, n) ==
    CASE t.at = "get_unprocessed_emails" -> NextAwait(1, n)
      [] t.at = "create_ticket" -> {Suspended("create_entry", t.idx)}
      [] t.at = "create_entry" -> {Suspended("mark_as_processed", t.idx)}
      [] OTHER -> NextAwait(t.idx + 1, n)

ServeIdle ==
    /\ tasks = [r \in Requests |-> NoTask]
    /\ email_batch_size = 0
    /\ replies = [r \in Requests |-> NoReply]

ServeInit ==
    /\ tasks = [r \in Requests |-> NoTask]
    /\ email_batch_size \in 0..MaxBatch
    /\ replies = [r \in Requests |-> NoReply]

\* a mutant: the endpoint awaits agent.process_email_batch itself and has
\* not responded while the batch runs
PostProcessEmailBatchAwaited ==
    /\ \E r \in Requests :
        /\ tasks[r].pc = "none"
        /\ \A q \in Requests : q < r => tasks[q].pc # "none"
        /\ tasks' = [tasks EXCEPT ![r] = Suspended("get_unprocessed_emails", 0)]
    /\ UNCHANGED <<email_batch_size, replies>>
    /\ UNCHANGED notServe

\* the endpoint process_email_batch: the task is added and the response sent
PostProcessEmailBatch ==
    /\ \E r \in Requests :
        /\ tasks[r].pc = "none"
        /\ \A q \in Requests : q < r => tasks[q].pc # "none"
        /\ tasks' = [tasks EXCEPT ![r] = [pc |-> "added", at |-> "none", idx |-> 0]]
        /\ replies' = [replies EXCEPT ![r] = BatchStarted]
    /\ UNCHANGED email_batch_size
    /\ UNCHANGED notServe

\* the background task of a request starts: process_email_batch runs up to
\* its first await
StartBatch ==
    /\ \E r \in Requests :
        /\ tasks[r].pc = "added"
        /\ tasks' = [tasks EXCEPT ![r] = Suspended("get_unprocessed_emails", 0)]
    /\ UNCHANGED <<email_batch_size, replies>>
    /\ UNCHANGED notServe

\* the await of a suspended execution returns: it runs up to its next await
\* or to its end
ResumeBatch ==
    /\ \E r \in Requests :
        /\ tasks[r].pc = "suspended"
        /\ \E t \in AfterAwait(tasks[r], Len(GetUnprocessedEmails(email_batch_size))) :
              tasks' = [tasks EXCEPT ![r] = t]
    /\ UNCHANGED <<email_batch_size, replies>>
    /\ UNCHANGED notServe

ServeNext ==
    \/ PostProcessEmailBatch
    \/ StartBatch
    \/ ResumeBatch

(***************************************************************************)
(* The POST endpoints of the four agent methods.  A request body, the      *)
(* arguments of an agent method and the dict given to a tool are records   *)
(* of one shape, a field the endpoint does not have being Unused.          *)
(***************************************************************************)
Unused == "-"

\* an optional field the request body does not give
Missing == "MISSING"

NoFields ==
    [subject |-> Unused, body |-> Unused, sender |-> Unused, date |-> Unused,
     attachments |-> Unused, title |-> Unused, description |-> Unused,
     customer_id |-> Unused, priority |-> Unused, category |-> Unused,
     customer_name |-> Unused, interaction_details |-> Unused,
     additional_info |-> Unused, query |-> Unused, context |-> Unused]

Endpoints == {"/summarize-email", "/categorize-ticket", "/create-crm-entry", "/route-query"}

\* the request bodies the request models accept
RequestBodies(e) ==
    CASE e = "/summarize-email" ->
            {[NoFields EXCEPT !.subject = "Login Issue", !.body = "Cannot log in",
                              !.sender = "john@example.com", !.date = "2023-10-15",
                              !.attachments = a] :
                a \in {Missing, "[]", "[shot.png]"}}
      [] e = "/categorize-ticket" ->
            {[NoFields EXCEPT !.title = "Login Issue", !.description = "Cannot log in",
                              !.customer_id = c, !.priority = p, !.category = g] :
                c \in {Missing, "CUST12345"}, p \in {Missing, "Low"}, g \in {Missing, "Billing"}}
      [] e = "/create-crm-entry" ->
            {[NoFields EXCEPT !.customer_name = "John Smith",
                              !.interaction_details = "Reported login issues",
                              !.additional_info = a] :
                a \in {Missing, "{}", "{source: email}"}}
      [] OTHER ->
            {[NoFields EXCEPT !.query = "How do I reset my password?",
                              !.customer_id = c, !.context = x] :
                c \in {Missing, "CUST12345"}, x \in {Missing, "{}", "{tickets: [T1]}"}}

\* the request model: an optional field not given is None
RequestModel(body) ==
    LET Default(v) == IF v = Missing THEN PyNone ELSE v
    IN  [subject |-> body.subject, body |-> body.body, sender |-> body.sender,
         date |-> body.date, attachments |-> Default(body.attachments),
         title |-> body.title, description |-> body.description,
         customer_id |-> Default(body.customer_id), priority |-> Default(body.priority),
         category |-> Default(body.category), customer_name |-> body.customer_name,
         interaction_details |-> body.interaction_details,
         additional_info |-> Default(body.additional_info), query |-> body.query,
         context |-> Default(body.context)]

MethodOf(e) ==
    CASE e = "/summarize-email" -> "summarize_email"
      [] e = "/categorize-ticket" -> "categorize_ticket"
      [] e = "/create-crm-entry" -> "create_crm_entry"
      [] OTHER -> "route_query"

\* the arguments the endpoint gives the agent method
EndpointArguments(e, m) ==
    CASE e = "/summarize-email" ->
            [NoFields EXCEPT !.subject = m.subject, !.body = m.body, !.sender = m.sender,
                             !.date = m.date, !.attachments = m.attachments]
      [] e = "/categorize-ticket" ->
            [NoFields EXCEPT !.title = m.title, !.description = m.description,
                             !.customer_id = m.customer_id, !.priority = m.priority,
                             !.category = m.category]
      [] e = "/create-crm-entry" ->
            [NoFields EXCEPT !.customer_name = m.customer_name,
                             !.interaction_details = m.interaction_details,
                             !.additional_info = m.additional_info]
      [] OTHER ->
            [NoFields EXCEPT !.query = m.query, !.customer_id = m.customer_id,
                             !.context = m.context]

\* x or empty, for an optional list or dict: None and the empty one are falsy
OrEmpty(x, empty) == IF x = PyNone \/ x = empty THEN empty ELSE x

\* the dict the agent method gives its tool
ToolData(method, a) ==
    CASE method = "summarize_email" ->
            [NoFields EXCEPT !.subject = a.subject, !.body = a.body, !.sender = a.sender,
                             !.date = a.date, !.attachments = OrEmpty(a.attachments, "[]")]
      [] method = "categorize_ticket" ->
            [NoFields EXCEPT !.title = a.title, !.description = a.description,
                             !.customer_id = a.customer_id, !.priority = a.priority,
                             !.category = a.category]
      [] method = "create_crm_entry" ->
            [NoFields EXCEPT !.customer_name = a.customer_name,
                             !.interaction_details = a.interaction_details,
                             !.additional_info = OrEmpty(a.additional_info, "{}")]
      [] OTHER ->
            [NoFields EXCEPT !.query = a.query, !.customer_id = a.customer_id,
                             !.context = OrEmpty(a.context, "{}")]

\* the tool operation on its dict, given what the LLM does
ToolOperation(method, data, out) ==
    CASE method = "summarize_email" -> SummarizerRun(out)
      [] method = "categorize_ticket" ->
            RunCategorization(data.title, data.priority, data.category, out)
      [] method = "create_crm_entry" -> CrmRun(data.customer_name, out)
      [] OTHER -> RunRouting(out)

\* the end of the agent method: categorize_ticket and route_query read the
\* tool's result with .get for their log line, then the result is returned
AgentReturn(method, result) ==
    IF method \in {"categorize_ticket", "route_query"} /\ result.value.kind # "dict"
    THEN Raise("AttributeError")
    ELSE result

NoResponse == [status |-> 0, wrapped |-> "none", body |-> NoneValue]

\* a mutant: the endpoint answers 200 with the error in the body
EndpointResponseErrorAs200(e, r) ==
    IF r.exc # "none"
    THEN [status |-> 200, wrapped |-> "detail", body |-> NoneValue]
    ELSE [status |-> 200,
          wrapped |-> CASE e = "/summarize-email" -> "summary"
                        [] e = "/create-crm-entry" -> "crm_entry"
                        [] OTHER -> "none",
          body |-> r.value]

\* the response of the endpoint: the result, or HTTPException(500)
EndpointResponse(e, r) ==
    IF r.exc # "none"
    THEN [status |-> 500, wrapped |-> "detail", body |-> NoneValue]
    ELSE [status |-> 200,
          wrapped |-> CASE e = "/summarize-email" -> "summary"
                        [] e = "/create-crm-entry" -> "crm_entry"
                        [] OTHER -> "none",
          body |-> r.value]

ApiIdle ==
    /\ endpoint = "none"
    /\ request = NoFields
    /\ apc = "idle"
    /\ agentCalls = <<>>
    /\ toolCalls = <<>>
    /\ toolResult = NotReturned
    /\ agentResult = NotReturned
    /\ response = NoResponse

ApiInit ==
    /\ endpoint \in Endpoints
    /\ request \in RequestBodies(endpoint)
    /\ apc = "received"
    /\ agentCalls = <<>>
    /\ toolCalls = <<>>
    /\ toolResult = NotReturned
    /\ agentResult = NotReturned
    /\ response = NoResponse

\* the endpoint calls its agent method
EndpointCall ==
    /\ apc = "received"
    /\ agentCalls' = Append(agentCalls,
            [method |-> MethodOf(endpoint),
             args |-> EndpointArguments(endpoint, RequestModel(request))])
    /\ apc' = "in_agent"
    /\ UNCHANGED <<endpoint, request, toolCalls, toolResult, agentResult, response>>
    /\ UNCHANGED notApi

\* the agent method prepares the dict and calls its tool
AgentCall ==
    /\ apc = "in_agent"
    /\ LET c == agentCalls[Len(agentCalls)]
       IN  toolCalls' = Append(toolCalls, [tool |-> c.method, data |-> ToolData(c.method, c.args)])
    /\ apc' = "in_tool"
    /\ UNCHANGED <<endpoint, request, agentCalls, toolResult, agentResult, response>>
    /\ UNCHANGED notApi

\* the tool operation returns, and the agent method ends
ToolReturn ==
    /\ apc = "in_tool"
    /\ LET c == toolCalls[Len(toolCalls)]
       IN  \E out \in OutcomesOf(c.tool) :
              /\ toolResult' = ToolOperation(c.tool, c.data, out)
              /\ agentResult' = AgentReturn(c.tool, toolResult')
    /\ apc' = "agent_ended"
    /\ UNCHANGED <<endpoint, request, agentCalls, toolCalls, response>>
    /\ UNCHANGED notApi

\* the endpoint responds
Respond ==
    /\ apc = "agent_ended"
    /\ response' = EndpointResponse(endpoint, agentResult)
    /\ apc' = "responded"
    /\ UNCHANGED <<endpoint, request, agentCalls, toolCalls, toolResult, agentResult>>
    /\ UNCHANGED notApi

ApiNext ==
    \/ EndpointCall
    \/ AgentCall
    \/ ToolReturn
    \/ Respond

(***************************************************************************)
(* AgentMemory.get_relevant_history.  A message of the transcript is its   *)
(* position and the customer_id of its additional_kwargs, None when it has *)
(* none.                                                                   *)
(***************************************************************************)
CustomerTags == {PyNone, "c1", "c2"}

Transcripts ==
    UNION {{[i \in 1..k |-> [n |-> i, customer_id |-> f[i]]] : f \in [1..k -> CustomerTags]} :
           k \in 0..MaxHistory}

\* the arguments: customer_id (None by default, or the empty string) and
\* max_messages
HistoryArguments ==
    [customer_id : {PyNone, "", "c1", "c2"}, max_messages : 0..(MaxHistory + 1)]

\* lst[-m:]
LastSlice(lst, m) ==
    LET start == IF -m < 0
                 THEN (IF Len(lst) - m < 0 THEN 0 ELSE Len(lst) - m)
                 ELSE (IF -m > Len(lst) THEN Len(lst) ELSE -m)
    IN  SubSeq(lst, start + 1, Len(lst))

\* AgentMemory.get_relevant_history
RelevantHistory(msgs, customer_id, max_messages) ==
    LET Mine(m) == m.customer_id = customer_id
    IN  IF customer_id \in {PyNone, ""}
        THEN LastSlice(msgs, max_messages)
        ELSE LastSlice(SelectSeq(msgs, Mine), max_messages)

HistoryIdle ==
    /\ all_messages = <<>>
    /\ hargs = [customer_id |-> PyNone, max_messages |-> 0]
    /\ hpc = "idle"
    /\ hresult = <<>>

HistoryInit ==
    /\ all_messages \in Transcripts
    /\ hargs \in HistoryArguments
    /\ hpc = "called"
    /\ hresult = <<>>

\* a call of get_relevant_history
GetRelevantHistory ==
    /\ hpc = "called"
    /\ hresult' = RelevantHistory(all_messages, hargs.customer_id, hargs.max_messages)
    /\ hpc' = "returned"
    /\ UNCHANGED <<all_messages, hargs>>
    /\ UNCHANGED notHistory

HistoryNext == GetRelevantHistory

(***************************************************************************)
(* CRMService.get_recent_interactions                                      *)
(***************************************************************************)
CrmCustomers == {"CUST12345", "CUST67890", "CUST24680", "CUST13579", "CUST00000"}

\* the attribute timedelta of the module asyncio: there is none
AsyncioTimedelta == Raise("AttributeError")

\* the type of the i-th canned interaction, i from 0
InteractionType(i) ==
    CASE i = 0 -> "Email"
      [] i = 1 -> "Support Ticket"
      [] OTHER -> "Call"

CrmIdle ==
    /\ icustomer = "none"
    /\ limit = 0
    /\ ipc = "idle"
    /\ inext = 0
    /\ interactions = <<>>
    /\ ierror = "none"

CrmInit ==
    /\ icustomer \in CrmCustomers
    /\ limit \in (-1)..MaxLimit
    /\ ipc = "called"
    /\ inext = 0
    /\ interactions = <<>>
    /\ ierror = "none"

\* await asyncio.sleep(0.3); interactions = []
InteractionsDelay ==
    /\ ipc = "called"
    /\ ipc' = "loop"
    /\ interactions' = <<>>
    /\ UNCHANGED <<icustomer, limit, inext, ierror>>
    /\ UNCHANGED notCrm

\* one pass of for i in range(min(3, limit)): the interaction is built, its
\* date with asyncio.timedelta, and appended; an exception ends the call in
\* the except branch, which returns []
InteractionsAppend ==
    /\ ipc = "loop"
    /\ inext < Min(MockInteractionCount, limit)
    /\ IF AsyncioTimedelta.exc # "none"
       THEN /\ ierror' = AsyncioTimedelta.exc
            /\ interactions' = <<>>
            /\ ipc' = "returned"
            /\ inext' = inext
       ELSE /\ interactions' = Append(interactions, [n |-> inext, type |-> InteractionType(inext)])
            /\ inext' = inext + 1
            /\ UNCHANGED <<ipc, ierror>>
    /\ UNCHANGED <<icustomer, limit>>
    /\ UNCHANGED notCrm

\* return interactions
InteractionsReturn ==
    /\ ipc = "loop"
    /\ inext >= Min(MockInteractionCount, limit)
    /\ ipc' = "returned"
    /\ UNCHANGED <<icustomer, limit, inext, interactions, ierror>>
    /\ UNCHANGED notCrm

CrmNext ==
    \/ InteractionsDelay
    \/ InteractionsAppend
    \/ InteractionsReturn

(***************************************************************************)
(* EmailService over several runs of process_email_batch.  The id of a     *)
(* fetched email is "email_<i>_<time of the fetch to the second>";         *)
(* mark_as_processed sleeps, logs and returns True.                        *)
(***************************************************************************)
\* email_id = f"email_{i}_{datetime.now().strftime('%Y%m%d%H%M%S')}"
StampedEmails(size, now) ==
    [k \in 1..Len(GetUnprocessedEmails(size)) |->
        [GetUnprocessedEmails(size)[k] EXCEPT !.id = <<@, now>>]]

\* how the try body ends for one email: an exception before the first
\* service call, or all its steps, with or without a ticket
EmailOutcomes == {"raised", "support", "other"}

MailIdle ==
    /\ rsize = 0
    /\ rpc = "idle"
    /\ runs = 0
    /\ clock = 0
    /\ fetched = <<>>
    /\ fpos = 0
    /\ marked = {}
    /\ created = <<>>

MailInit ==
    /\ rsize \in 0..MaxBatch
    /\ rpc = "fetch"
    /\ runs = 1
    /\ clock = 0
    /\ fetched = <<>>
    /\ fpos = 0
    /\ marked = {}
    /\ created = <<>>

\* emails = await self.email_service.get_unprocessed_emails()
MailFetch ==
    /\ rpc = "fetch"
    /\ fetched' = StampedEmails(rsize, clock)
    /\ IF Len(fetched') > 0
       THEN fpos' = 1 /\ rpc' = "loop"
       ELSE fpos' = 0 /\ rpc' = "done"
    /\ UNCHANGED <<rsize, runs, clock, marked, created>>
    /\ UNCHANGED notMail

\* one pass of the for loop
MailProcess ==
    /\ rpc = "loop"
    /\ \E o \in EmailOutcomes :
        LET id == fetched[fpos].id
        IN  /\ created' =
                  created
                  \o (IF o = "support" THEN <<[op |-> "create_ticket", id |-> id]>> ELSE <<>>)
                  \o (IF o # "raised" THEN <<[op |-> "create_entry", id |-> id]>> ELSE <<>>)
            /\ marked' = IF o # "raised" THEN marked \cup {id} ELSE marked
    /\ IF fpos < Len(fetched)
       THEN fpos' = fpos + 1 /\ rpc' = "loop"
       ELSE fpos' = fpos /\ rpc' = "done"
    /\ UNCHANGED <<rsize, runs, clock, fetched>>
    /\ UNCHANGED notMail

\* process_email_batch is run again, in the same second or later
MailAgain ==
    /\ rpc = "done"
    /\ runs < MaxRuns
    /\ runs' = runs + 1
    /\ rpc' = "fetch"
    /\ \E later \in 0..1 : clock' = clock + later
    /\ fetched' = <<>>
    /\ fpos' = 0
    /\ UNCHANGED <<rsize, marked, created>>
    /\ UNCHANGED notMail

MailNext ==
    \/ MailFetch
    \/ MailProcess
    \/ MailAgain

(***************************************************************************)
(* SpecJson: the extraction of each structured tool on every reply text    *)
(***************************************************************************)
NotExtracted ==
    [crm |-> ParseFailed, categorization |-> ParseFailed, routing |-> ParseFailed]

JsonIdle ==
    /\ content = <<>>
    /\ jpc = "idle"
    /\ extracted = NotExtracted

JsonInit ==
    /\ content \in Contents(MaxLen)
    /\ jpc = "input"
    /\ extracted = NotExtracted

Extract ==
    /\ jpc = "input"
    /\ jpc' = "parsed"
    /\ extracted' = [crm |-> CrmExtract(content),
                     categorization |-> CategorizationExtract(content),
                     routing |-> RoutingExtract(content)]
    /\ UNCHANGED content
    /\ UNCHANGED notJson

JsonNext == Extract

InitJson == JsonInit /\ ToolIdle /\ BatchIdle /\ MemIdle /\ ServeIdle /\ ApiIdle /\ HistoryIdle /\ CrmIdle
    /\ MailIdle

SpecJson == InitJson /\ [][JsonNext]_vars

InitTool == ToolInit /\ JsonIdle /\ BatchIdle /\ MemIdle /\ ServeIdle /\ ApiIdle /\ HistoryIdle /\ CrmIdle
    /\ MailIdle

InitBatch == BatchInit /\ JsonIdle /\ ToolIdle /\ MemIdle /\ ServeIdle /\ ApiIdle /\ HistoryIdle /\ CrmIdle
    /\ MailIdle

SpecBatch == InitBatch /\ [][BatchNext]_vars

\* the event loop resumes the coroutine of the batch whenever an awaited
\* service call has returned, and every service call returns
SpecBatchFair == InitBatch /\ [][BatchNext]_vars /\ WF_vars(BatchNext)

InitMem == MemInit /\ JsonIdle /\ ToolIdle /\ BatchIdle /\ ServeIdle /\ ApiIdle /\ HistoryIdle /\ CrmIdle
    /\ MailIdle

InitServe == ServeInit /\ JsonIdle /\ ToolIdle /\ BatchIdle /\ MemIdle /\ ApiIdle /\ HistoryIdle /\ CrmIdle
    /\ MailIdle

SpecServe == InitServe /\ [][ServeNext]_vars

InitApi == ApiInit /\ JsonIdle /\ ToolIdle /\ BatchIdle /\ MemIdle /\ ServeIdle /\ HistoryIdle /\ CrmIdle
    /\ MailIdle

SpecApi == InitApi /\ [][ApiNext]_vars

InitHistory ==
    HistoryInit /\ JsonIdle /\ ToolIdle /\ BatchIdle /\ MemIdle /\ ServeIdle /\ ApiIdle /\ CrmIdle /\ MailIdle

SpecHistory == InitHistory /\ [][HistoryNext]_vars

InitCrm ==
    CrmInit /\ JsonIdle /\ ToolIdle /\ BatchIdle /\ MemIdle /\ ServeIdle /\ ApiIdle /\ HistoryIdle /\ MailIdle

SpecCrm == InitCrm /\ [][CrmNext]_vars

InitMail ==
    MailInit /\ JsonIdle /\ ToolIdle /\ BatchIdle /\ MemIdle /\ ServeIdle /\ ApiIdle /\ HistoryIdle
    /\ CrmIdle

SpecMail == InitMail /\ [][MailNext]_vars

SpecMem == InitMem /\ [][MemNext]_vars

SpecTool == InitTool /\ [][ToolNext]_vars

(***************************************************************************)
(* C5                                                                      *)
(***************************************************************************)
ExtractionTools == {"crm", "categorization", "routing"}

\* what "the first strategy, in the order direct, fenced, slice, that
\* succeeds" would return
FirstSuccess(s) ==
    IF JsonLoads(s).ok
    THEN Parsed(JsonLoads(s).value, "direct")
    ELSE IF FenceSearch(s).found /\ JsonLoads(FenceSearch(s).group).ok
         THEN Parsed(JsonLoads(FenceSearch(s).group).value, "fenced")
         ELSE BraceSliceParse(s)

\* C5 as stated: each extraction returns the value of the first of the three
\* strategies (whole reply, fenced block, brace slice) that succeeds.
C5_FirstSuccessReturned ==
    jpc = "parsed" =>
        \A t \in ExtractionTools : extracted[t] = FirstSuccess(content)

\* C5 amended: the whole reply is parsed first; when that fails and a fenced
\* block is present the result is the parse of the block's content, a failure
\* included, and the brace slice is not tried; only without a fenced block is
\* the slice from the first "{" to the last "}" parsed.
C5_ExtractionOrder ==
    jpc = "parsed" =>
        \A t \in ExtractionTools :
            LET r == extracted[t]
                direct == JsonLoads(content)
                fence == FenceSearch(content)
                a == Find(content, "{")
                b == RFind(content, "}")
            IN  /\ direct.ok => r = Parsed(direct.value, "direct")
                /\ (~direct.ok /\ fence.found) =>
                       r = IF JsonLoads(fence.group).ok
                           THEN Parsed(JsonLoads(fence.group).value, "fenced")
                           ELSE ParseFailed
                /\ (~direct.ok /\ ~fence.found) =>
                       r = IF /\ a # -1
                              /\ b # -1
                              /\ JsonLoads(SubSeq(content, a + 1, b + 1)).ok
                           THEN Parsed(JsonLoads(SubSeq(content, a + 1, b + 1)).value, "slice")
                           ELSE ParseFailed

\* a reply whose fenced block and whose brace slice both parse, to different
\* values: the fenced block's value is the one returned
C5_Witness ==
    /\ jpc = "parsed"
    /\ extracted.crm.via = "fenced"
    /\ BraceSliceParse(content).ok
    /\ BraceSliceParse(content).value # extracted.crm.value

(***************************************************************************)
(* C1 to C4: process_email_batch                                           *)
(***************************************************************************)
Positions == 1..Len(emails)

\* the processing of the email at position p has ended
Finished(p) == p < idx \/ (bpc = "done" /\ p <= idx)

CaughtAt(p) == \E k \in 1..Len(caught) : caught[k].pos = p

\* the calls made for the email at position p, in order
CallsOf(p) ==
    LET Mine(c) == c.pos = p
    IN  SelectSeq(calls, Mine)

OpsOf(p) == [k \in 1..Len(CallsOf(p)) |-> CallsOf(p)[k].op]

CallsTo(op) ==
    LET Mine(c) == c.op = op
    IN  SelectSeq(calls, Mine)

SupportAt(p) ==
    \E k \in 1..Len(calls) :
        calls[k].pos = p /\ calls[k].op = "is_support_request" /\ calls[k].ret = "True"

NoSupportAt(p) ==
    \E k \in 1..Len(calls) :
        calls[k].pos = p /\ calls[k].op = "is_support_request" /\ calls[k].ret = "False"

IsPrefix(a, b) == Len(a) <= Len(b) /\ SubSeq(b, 1, Len(a)) = a

WithTicket ==
    <<"summarize_email", "is_support_request", "categorize_ticket", "create_ticket",
      "create_crm_entry", "create_entry", "mark_as_processed">>

WithoutTicket ==
    <<"summarize_email", "is_support_request", "create_crm_entry", "create_entry",
      "mark_as_processed">>

\* C1: every fetched email is attempted exactly once, in list order (its
\* first step, summarize_email, is called once, the k-th such call being for
\* the k-th email); an exception caught for one email does not end the
\* batch, which completes only after the last email was attempted.
C1_EachEmailAttemptedOnce ==
    LET firsts == CallsTo("summarize_email")
    IN  /\ \A k \in 1..Len(firsts) : firsts[k].pos = k /\ firsts[k].id = emails[k].id
        /\ bpc \notin {"fetch", "summarize_email", "done"} => Len(firsts) = idx
        /\ bpc = "summarize_email" => Len(firsts) = idx - 1
        /\ bpc = "done" => Len(firsts) = Len(emails) /\ idx = Len(emails)
        /\ \A k \in 1..Len(caught) : Finished(caught[k].pos)

\* an exception was caught for the first email and the second was processed
\* to its end
C1_Witness ==
    /\ bpc = "done"
    /\ CaughtAt(1)
    /\ ~CaughtAt(2)
    /\ OpsOf(2) # <<>>
    /\ OpsOf(2)[Len(OpsOf(2))] = "mark_as_processed"

\* C2: the steps of an email processed without error are, in this order,
\* summarize_email, is_support_request, (categorize_ticket, create_ticket
\* when it is a support request), create_crm_entry, create_entry,
\* mark_as_processed; the steps made so far for the email in progress are a
\* prefix of that order, and the calls of two emails do not interleave.
C2_StepOrder ==
    /\ \A p \in Positions :
          (Finished(p) /\ ~CaughtAt(p)) =>
              OpsOf(p) = IF SupportAt(p) THEN WithTicket ELSE WithoutTicket
    /\ \A p \in Positions :
          ~Finished(p) =>
              \/ IsPrefix(OpsOf(p), WithTicket) /\ (Len(OpsOf(p)) > 2 => SupportAt(p))
              \/ IsPrefix(OpsOf(p), WithoutTicket) /\ (Len(OpsOf(p)) > 2 => NoSupportAt(p))
    /\ \A k \in 1..(Len(calls) - 1) : calls[k].pos <= calls[k + 1].pos

\* the batch completed with a support request and another email, each
\* processed without error
C2_Witness ==
    /\ bpc = "done"
    /\ \E p, q \in Positions :
          /\ ~CaughtAt(p) /\ SupportAt(p)
          /\ ~CaughtAt(q) /\ NoSupportAt(q)

TicketsOf(p) == {k \in 1..Len(tickets) : tickets[k].pos = p}

\* C3: for every email for which is_support_request returned True exactly one
\* ticket is created, with the email's subject, body and customer_id and the
\* category and priority of the categorization result; for every email for
\* which it returned False neither categorize_ticket nor create_ticket is
\* called and the CRM entry is generated and submitted.
C3_TicketForEverySupportRequest ==
    /\ \A p \in Positions :
          (Finished(p) /\ SupportAt(p)) =>
              /\ Cardinality(TicketsOf(p)) = 1
              /\ \A k \in TicketsOf(p) :
                    /\ tickets[k].args.title = emails[p].subject
                    /\ tickets[k].args.description = emails[p].body
                    /\ tickets[k].args.customer_id = emails[p].customer_id
    /\ (bpc = "create_crm_entry" /\ SupportAt(idx)) =>
          /\ tickets # <<>>
          /\ tickets[Len(tickets)].pos = idx
          /\ tickets[Len(tickets)].args.category = ticket_data.category
          /\ tickets[Len(tickets)].args.priority = ticket_data.priority
    /\ \A p \in Positions :
          (Finished(p) /\ NoSupportAt(p)) =>
              /\ \A k \in 1..Len(OpsOf(p)) :
                    OpsOf(p)[k] \notin {"categorize_ticket", "create_ticket"}
              /\ \E k \in 1..Len(OpsOf(p)) : OpsOf(p)[k] = "create_crm_entry"
              /\ \E k \in 1..Len(submitted) : submitted[k].pos = p

StepRank(op) ==
    CHOOSE k \in 1..Len(WithTicket) : WithTicket[k] = op

MarksOf(p) ==
    LET Mine(c) == c.pos = p /\ c.op = "mark_as_processed"
    IN  SelectSeq(calls, Mine)

\* C4: mark_as_processed is called for an email exactly when no step of the
\* email raised, after all its preceding steps, at most once and with the
\* email's own id; when a step raised, no later step of that email is made.
C4_MarkedIffNoStepRaised ==
    \A p \in Positions :
        /\ Len(MarksOf(p)) <= 1
        /\ \A k \in 1..Len(MarksOf(p)) : MarksOf(p)[k].id = emails[p].id
        /\ Finished(p) => (Len(MarksOf(p)) = 1 <=> ~CaughtAt(p))
        /\ Len(MarksOf(p)) = 1 =>
              /\ OpsOf(p)[Len(OpsOf(p))] = "mark_as_processed"
              /\ \E k \in 1..Len(submitted) : submitted[k].pos = p
              /\ SupportAt(p) => Cardinality(TicketsOf(p)) = 1
        /\ \A k \in 1..Len(caught) :
              caught[k].pos = p =>
                  /\ \A j \in 1..Len(OpsOf(p)) :
                        StepRank(OpsOf(p)[j]) <= StepRank(caught[k].op)
                  /\ caught[k].op = "create_ticket" => TicketsOf(p) = {}
                  /\ \A j \in 1..Len(submitted) : submitted[j].pos # p

\* one email whose categorization raised is left unmarked and another is
\* marked
C4_Witness ==
    /\ bpc = "done"
    /\ \E p, q \in Positions :
          /\ CaughtAt(p) /\ MarksOf(p) = <<>>
          /\ ~CaughtAt(q) /\ Len(MarksOf(q)) = 1

(***************************************************************************)
(* C6, C7: one call of a tool operation                                    *)
(***************************************************************************)
\* the extraction of a structured tool
ExtractOf(t, s) ==
    CASE t = "create_crm_entry" -> CrmExtract(s)
      [] t = "categorize_ticket" -> CategorizationExtract(s)
      [] OTHER -> RoutingExtract(s)

\* the call invoked the LLM, and the invocation raised or (structured tools)
\* its reply could not be parsed
LlmOrParsingFailed ==
    /\ llmCalls > 0
    /\ \/ tllm.raised
       \/ tool \in StructuredTools /\ ~ExtractOf(tool, tllm.content).ok

\* C6: a tool operation that has ended has returned, not raised; and when
\* the LLM call raised or the reply could not be parsed, what it returned is
\* a string that begins with "Failed to ..." (text tools), a dict with an
\* "error" key (structured tools), or True (is_support_request).
C6_ErrorPayloadReturned ==
    tpc = "returned" =>
        /\ tout.exc = "none"
        /\ LlmOrParsingFailed =>
            /\ tool = "summarize_email" =>
                /\ tout.value.kind = "str"
                /\ tout.value.text[1] = "Failed to summarize email: "
            /\ tool = "retrieve_information" =>
                /\ tout.value.kind = "str"
                /\ tout.value.text[1] = "Failed to retrieve information: "
            /\ tool \in StructuredTools =>
                /\ tout.value.kind = "dict"
                /\ tout.value.error # Absent
            /\ tool = "is_support_request" => tout.value = BoolValue(TRUE)

\* the LLM raised in a call of summarize_email, which returned its failure
\* message
C6_Witness ==
    /\ tpc = "returned"
    /\ tool = "summarize_email"
    /\ tllm.raised
    /\ tout = Return(StrValue(<<"Failed to summarize email: ", "Error summarizing email: ", LlmError>>))

\* C7: a call of a tool operation invokes the LLM at most once, whether the
\* invocation gives a reply, raises, or gives a reply that cannot be parsed;
\* once an invocation was made the call has returned.
C7_LlmInvokedAtMostOnce ==
    /\ llmCalls <= 1
    /\ llmCalls = 1 => tpc = "returned"

\* categorize_ticket returned its parse failure after one invocation
C7_Witness ==
    /\ tpc = "returned"
    /\ tool = "categorize_ticket"
    /\ llmCalls = 1
    /\ ~tllm.raised
    /\ tout.value.error = "Failed to parse structured categorization"

(***************************************************************************)
(* C8, C9, C10: the memory file                                            *)
(***************************************************************************)
\* the role of a message of a class
RoleOf(cls) ==
    CASE cls = "HumanMessage" -> "human"
      [] cls = "AIMessage" -> "ai"
      [] cls = "SystemMessage" -> "system"

\* the transcript in memory as (role, content) records
Transcript == [k \in 1..Len(messages) |-> [type |-> RoleOf(messages[k].cls), content |-> messages[k].content]]

\* C8: after a mutating operation whose write succeeded, the file holds
\* exactly the messages (role and content, in order) and the customer
\* contexts held in memory; the file was written at that operation.
C8_FileHoldsMemory ==
    (mpc = "up" /\ lastWrite = "ok") =>
        /\ file.state = "ok"
        /\ file.messages = Transcript
        /\ file.customer_contexts = customer_contexts
        /\ file.last_updated = Time(nops)

\* clear was called on a memory with messages and contexts, and the file was
\* written
C8_Witness ==
    /\ mpc = "up"
    /\ lastWrite = "ok"
    /\ cleared
    /\ messages = <<>>
    /\ file.messages = <<>>
    /\ \E c \in Customers : file.customer_contexts[c].present

\* the keys of the customer contexts of a file
KeysOf(f) ==
    {<<c, "entry">> : c \in {x \in Customers : f.customer_contexts[x].present}}
    \cup {<<c, "tier">> : c \in {x \in Customers : f.customer_contexts[x].tier # Absent}}
    \cup {<<c, "lang">> : c \in {x \in Customers : f.customer_contexts[x].lang # Absent}}
    \cup {<<c, "last_updated">> : c \in {x \in Customers : f.customer_contexts[x].last_updated # NoTime}}

\* both the file before and the file after the step were written by
\* _save_memory
SaveAfterSave ==
    /\ file.state = "ok" /\ file.origin = "save"
    /\ file'.state = "ok" /\ file'.origin = "save"

\* C9 as stated: the messages of each written file extend those of the file
\* written before, and no context key of the file disappears.
C9_AppendOnly ==
    [][SaveAfterSave =>
        /\ IsPrefix(file.messages, file'.messages)
        /\ KeysOf(file) \subseteq KeysOf(file')]_vars

\* C9, amended: as long as clear has not been called, the messages of each
\* written file extend those of the file written before; and, clear or not,
\* no context key of the file disappears when it is written again.
C9_AppendOnlyUntilClear ==
    [][SaveAfterSave =>
        /\ ~cleared' => IsPrefix(file.messages, file'.messages)
        /\ KeysOf(file) \subseteq KeysOf(file')]_vars

\* a file with messages and a context was written again with more messages,
\* clear never called
C9_Witness ==
    /\ ~cleared
    /\ nops >= 2
    /\ lastWrite = "ok"
    /\ file.origin = "save"
    /\ Len(file.messages) >= 5
    /\ \E c \in Customers : file.customer_contexts[c].lang # Absent

\* C10: after _save_memory wrote the file, a new AgentMemory made from the
\* file has the customer contexts and the messages (class and content, in
\* order) of the memory that was saved.
C10_SaveLoadRoundTrip ==
    (mpc = "up" /\ lastWrite = "ok") =>
        /\ LoadMemory(file).customer_contexts = customer_contexts
        /\ LoadMemory(file).messages = messages

\* a transcript with a system, a human and an AI message and a customer
\* context was saved
C10_Witness ==
    /\ mpc = "up"
    /\ lastWrite = "ok"
    /\ \E i, j, k \in 1..Len(messages) :
        /\ messages[i].cls = "SystemMessage"
        /\ messages[j].cls = "HumanMessage"
        /\ messages[k].cls = "AIMessage"
    /\ Len(messages) >= 5
    /\ \E c \in Customers : customer_contexts[c].present
    /\ LoadMemory(file).messages = messages

(***************************************************************************)
(* C11: the executions of process_email_batch                              *)
(***************************************************************************)
\* the requests whose execution of process_email_batch has started and has
\* not ended
InProgress == {r \in Requests : tasks[r].pc = "suspended"}

\* C11: at no time are two executions of process_email_batch in progress at
\* once, one suspended at an await while another runs.
C11_OneBatchAtATime == Cardinality(InProgress) <= 1

(***************************************************************************)
(* C12: the emails of one batch                                            *)
(***************************************************************************)
\* the processing of the email at position p has ended: mark_as_processed
\* returned, or its exception was caught
Ended(p) ==
    \/ CaughtAt(p)
    \/ OpsOf(p) # <<>> /\ OpsOf(p)[Len(OpsOf(p))] = "mark_as_processed"

\* C12: the emails are handled one after the other: when a call is made for
\* an email, the processing of every earlier email has ended (its
\* mark_as_processed returned or its exception was caught), no call is made
\* for an email the loop has not reached, and no call for an earlier email
\* follows a call for a later one.
C12_EmailsSequential ==
    /\ \A k \in 1..Len(calls) : calls[k].pos <= idx
    /\ \A k \in 1..Len(calls) : \A p \in 1..(calls[k].pos - 1) : Ended(p)
    /\ \A k, l \in 1..Len(calls) : k < l => calls[k].pos <= calls[l].pos
    /\ \A p \in Positions : p < idx => Ended(p)

\* the second email is in progress after the first was marked
C12_Witness ==
    /\ Len(emails) >= 2
    /\ idx = 2
    /\ bpc = "create_entry"
    /\ ~CaughtAt(1)
    /\ Ended(1)
    /\ OpsOf(2) # <<>>

(***************************************************************************)
(* C13, C14: the endpoints and the agent methods                           *)
(***************************************************************************)
\* the request fields as the agent method is to receive them: an optional
\* field that was not given is None
FieldsGiven == [f \in DOMAIN request |-> IF request[f] = Missing THEN PyNone ELSE request[f]]

\* C13: the endpoint calls its agent method exactly once with the request
\* fields (an optional field not given passed as None); it responds 200 with
\* the agent's result (under "summary" for /summarize-email, under
\* "crm_entry" for /create-crm-entry) when the method returned, and 500 with
\* a detail message when the method raised.
C13_EndpointResponse ==
    /\ Len(agentCalls) <= 1
    /\ apc = "responded" =>
        /\ Len(agentCalls) = 1
        /\ agentCalls[1].method = MethodOf(endpoint)
        /\ agentCalls[1].args = FieldsGiven
        /\ agentResult.exc = "none" =>
            /\ response.status = 200
            /\ response.body = agentResult.value
            /\ response.wrapped =
                  CASE endpoint = "/summarize-email" -> "summary"
                    [] endpoint = "/create-crm-entry" -> "crm_entry"
                    [] OTHER -> "none"
        /\ agentResult.exc # "none" =>
            /\ response.status = 500
            /\ response.wrapped = "detail"

\* /categorize-ticket with no optional field given answered 500 after the
\* agent method raised
C13_Witness ==
    /\ apc = "responded"
    /\ endpoint = "/categorize-ticket"
    /\ request.priority = Missing
    /\ agentCalls[1].args.priority = PyNone
    /\ agentResult.exc = "AttributeError"
    /\ response.status = 500

\* the dict an agent method is to give its tool: its arguments, an absent
\* attachments being the empty list and an absent additional_info or context
\* the empty dict
DataExpected(a) ==
    [f \in DOMAIN a |->
        IF a[f] = PyNone /\ f = "attachments" THEN "[]"
        ELSE IF a[f] = PyNone /\ f \in {"additional_info", "context"} THEN "{}"
        ELSE a[f]]

\* C14: the agent method calls its tool exactly once with a dict whose
\* fields equal its arguments (an absent attachments replaced by an empty
\* list, an absent additional_info or context by an empty dict) and returns
\* the tool's result unmodified.
C14_FacadePassThrough ==
    apc \in {"agent_ended", "responded"} =>
        /\ Len(toolCalls) = 1
        /\ toolCalls[1].tool = agentCalls[1].method
        /\ toolCalls[1].data = DataExpected(agentCalls[1].args)
        /\ agentResult = toolResult

(***************************************************************************)
(* C15: the support detection                                              *)
(***************************************************************************)
\* the reply of the LLM without the spaces around it
Trimmed ==
    LET r == tllm.content
        inked == {i \in 1..Len(r) : r[i] # " "}
        first == CHOOSE a \in inked : \A b \in inked : a <= b
        last == CHOOSE a \in inked : \A b \in inked : a >= b
    IN  IF inked = {} THEN <<>> ELSE [i \in 1..(last - first + 1) |-> r[first + i - 1]]

\* the characters i.. of the trimmed reply spell the word, whatever the case
Spells(i, word) ==
    /\ i + Len(word) - 1 <= Len(Trimmed)
    /\ \A k \in 1..Len(word) :
          \/ Trimmed[i + k - 1] = word[k]
          \/ <<Trimmed[i + k - 1], word[k]>> \in {<<"Y", "y">>, <<"N", "n">>}

\* C15: is_support_request returns True when the LLM call raises; otherwise
\* it returns True exactly when the reply, trimmed and in lower case,
\* contains "yes" and "no" does not occur within its first three characters;
\* so it returns True for the reply Yes and False for the reply No.
C15_SupportDetection ==
    (tpc = "returned" /\ tool = "is_support_request") =>
        /\ tout.exc = "none"
        /\ tout.value.kind = "bool"
        /\ tllm.raised => tout.value.truth
        /\ ~tllm.raised =>
            (tout.value.truth <=>
                /\ \E i \in 1..Len(Trimmed) : Spells(i, <<"y", "e", "s">>)
                /\ ~Spells(1, <<"n", "o">>)
                /\ ~Spells(2, <<"n", "o">>))
        /\ (~tllm.raised /\ tllm.content = <<"Y", "e", "s">>) => tout.value.truth
        /\ (~tllm.raised /\ tllm.content = <<"N", "o">>) => ~tout.value.truth

\* a reply that contains yes, and no after its first three characters,
\* gave True
C15_Witness ==
    /\ tpc = "returned"
    /\ tool = "is_support_request"
    /\ tllm = LlmReply(<<"y", "e", "s", " ", "N", "o">>)
    /\ tout = Return(BoolValue(TRUE))

(***************************************************************************)
(* C16: get_relevant_history                                               *)
(***************************************************************************)
\* the messages the call is about: the whole transcript when no customer_id
\* is given (None or the empty string), otherwise the messages of that
\* customer
Relevant ==
    LET Mine(m) == m.customer_id = hargs.customer_id
    IN  IF hargs.customer_id \in {PyNone, ""}
        THEN all_messages
        ELSE SelectSeq(all_messages, Mine)

\* C16: get_relevant_history returns at most max_messages messages: the most
\* recent of the relevant ones, in their original order.
C16_MostRecentAtMostMax ==
    hpc = "returned" =>
        /\ Len(hresult) <= hargs.max_messages
        /\ Len(hresult) <= Len(Relevant)
        /\ Len(hresult) = hargs.max_messages \/ Len(hresult) = Len(Relevant)
        /\ hresult = SubSeq(Relevant, Len(Relevant) - Len(hresult) + 1, Len(Relevant))

(***************************************************************************)
(* C17: the failure payloads of the structured tools                       *)
(***************************************************************************)
\* the raw reply is in the payload exactly when a reply was received
RawOnlyWithReply ==
    /\ tllm.raised => tout.value.raw = AbsentRaw
    /\ ~tllm.raised => tout.value.raw = tllm.content

\* C17: when the LLM call raised or its reply could not be parsed, the
\* structured tool returns a dict with an "error" field and: for
\* categorize_ticket the title, the suggested category or "Unknown", the
\* suggested priority or "Medium", department "Support"; for route_query
\* department "Support", priority "Medium", category "General"; for
\* create_crm_entry the customer name; the raw reply is included only when a
\* reply was received.
C17_FailurePayloads ==
    (tpc = "returned" /\ tool \in StructuredTools /\ LlmOrParsingFailed) =>
        /\ tout.exc = "none"
        /\ tout.value.kind = "dict"
        /\ tout.value.error # Absent
        /\ RawOnlyWithReply
        /\ tool = "categorize_ticket" =>
            /\ tout.value.title = targs.title
            /\ tout.value.category = (IF targs.category = PyNone THEN "Unknown" ELSE targs.category)
            /\ tout.value.priority = (IF targs.priority = PyNone THEN "Medium" ELSE targs.priority)
            /\ tout.value.department = "Support"
            /\ tout.value.customer_name = Absent
        /\ tool = "route_query" =>
            /\ tout.value.department = "Support"
            /\ tout.value.priority = "Medium"
            /\ tout.value.category = "General"
            /\ tout.value.title = Absent
            /\ tout.value.customer_name = Absent
        /\ tool = "create_crm_entry" =>
            /\ tout.value.customer_name = targs.customer_name
            /\ tout.value.category = Absent
            /\ tout.value.priority = Absent
            /\ tout.value.department = Absent
            /\ tout.value.title = Absent

\* categorize_ticket, called with a suggested category and no suggested
\* priority, returned its payload for a reply that is not JSON
C17_Witness ==
    /\ tpc = "returned"
    /\ tool = "categorize_ticket"
    /\ targs.category = "Billing"
    /\ targs.priority = PyNone
    /\ tllm = LlmReply(<<"x">>)
    /\ tout.value.category = "Billing"
    /\ tout.value.priority = "Medium"
    /\ tout.value.raw = <<"x">>

(***************************************************************************)
(* C18: retrieve_information                                               *)
(***************************************************************************)
RagMessage(text) == Return(StrValue(<<text>>))

\* C18: retrieve_information invokes the LLM only when RAG is enabled, the
\* vector store holds a document and the similarity search returned a
\* document; the search is made at most once, with k = the requested
\* max_results (3 when none is requested), and only when RAG is enabled and
\* the store holds a document; disabled, an empty store and a search that
\* finds nothing each give their fixed message without an invocation of the
\* LLM, disabled being checked first and the empty store second.
C18_RagChecksBeforeLlm ==
    tool = "retrieve_information" =>
        /\ llmCalls > 0 => targs.rag_enabled /\ targs.doc_count > 0 /\ targs.search = "docs"
        /\ Len(searches) <= 1
        /\ searches # <<>> =>
            /\ targs.rag_enabled /\ targs.doc_count > 0
            /\ searches[1] = (IF targs.max_results.given THEN targs.max_results.k ELSE 3)
        /\ tpc = "returned" =>
            /\ ~targs.rag_enabled =>
                /\ tout = RagMessage("RAG functionality is currently disabled. Please enable it in the settings.")
                /\ llmCalls = 0 /\ searches = <<>>
            /\ (targs.rag_enabled /\ targs.doc_count = 0) =>
                /\ tout = RagMessage("The knowledge base is empty. Please add documents before using this tool.")
                /\ llmCalls = 0 /\ searches = <<>>
            /\ (targs.rag_enabled /\ targs.doc_count > 0 /\ targs.search = "none") =>
                /\ tout = RagMessage("No relevant information found in the knowledge base.")
                /\ llmCalls = 0 /\ Len(searches) = 1
            /\ (targs.rag_enabled /\ targs.doc_count > 0 /\ targs.search = "docs") =>
                /\ llmCalls = 1 /\ Len(searches) = 1

\* with no max_results requested the search was made with k = 3 and found
\* nothing: the message was returned without the LLM
C18_Witness ==
    /\ tool = "retrieve_information"
    /\ tpc = "returned"
    /\ targs.rag_enabled /\ targs.doc_count = 2 /\ targs.search = "none"
    /\ ~targs.max_results.given
    /\ searches = <<3>>
    /\ llmCalls = 0
    /\ tout = RagMessage("No relevant information found in the knowledge base.")

(***************************************************************************)
(* C19: get_recent_interactions                                            *)
(***************************************************************************)
\* C19: get_recent_interactions returns min(3, limit) canned interactions
\* (none when limit <= 0), the i-th being of type Email, Support Ticket,
\* Call in that order; it returns an empty list only when limit <= 0 or an
\* error occurred.
C19_CannedInteractions ==
    ipc = "returned" =>
        /\ ierror = "none" =>
            /\ Len(interactions) = (IF limit <= 0 THEN 0 ELSE IF limit < 3 THEN limit ELSE 3)
            /\ \A k \in 1..Len(interactions) :
                  interactions[k].type = <<"Email", "Support Ticket", "Call">>[k]
        /\ interactions = <<>> => (limit <= 0 \/ ierror # "none")
        /\ limit >= 1 => interactions # <<>>

(***************************************************************************)
(* C20: which replies the structured tools parse                           *)
(***************************************************************************)
\* the "error" of the payload a structured tool returns for a reply it could
\* not parse
FailedToParse(t) ==
    CASE t = "create_crm_entry" -> "Failed to parse structured CRM entry"
      [] t = "categorize_ticket" -> "Failed to parse structured categorization"
      [] OTHER -> "Failed to parse structured routing"

\* a structured tool has returned after the LLM replied
StructuredReplied ==
    /\ tpc = "returned"
    /\ tool \in StructuredTools
    /\ llmCalls > 0
    /\ ~tllm.raised

\* the values the three strategies yield from a reply, each on its own
StrategyValues(s) ==
    (IF JsonLoads(s).ok THEN {JsonLoads(s).value} ELSE {})
    \cup (IF FenceSearch(s).found /\ JsonLoads(FenceSearch(s).group).ok
          THEN {JsonLoads(FenceSearch(s).group).value}
          ELSE {})
    \cup (IF BraceSliceParse(s).ok THEN {BraceSliceParse(s).value} ELSE {})

\* C20 as stated: whenever the whole reply, the content of its fenced block
\* or its brace slice is valid JSON, a structured tool returns such a parsed
\* value and not its "Failed to parse" payload.
C20_AnyStrategyReturned ==
    (StructuredReplied /\ StrategyValues(tllm.content) # {}) =>
        /\ tout.value.error # FailedToParse(tool)
        /\ tout.value \in StrategyValues(tllm.content)

\* C20 amended: a structured tool returns the parsed value when the whole
\* reply is valid JSON, or else the reply has a fenced block whose content is
\* valid JSON, or else the reply has no fenced block and its brace slice is
\* valid JSON; in every other case, that of a fenced block whose content is
\* not valid JSON included (whatever the brace slice holds), it returns its
\* "Failed to parse" payload with the raw reply.
C20_ParsedUnlessBlockFails ==
    StructuredReplied =>
        LET s == tllm.content
            direct == JsonLoads(s)
            fence == FenceSearch(s)
            block == JsonLoads(fence.group)
            slice == BraceSliceParse(s)
        IN  /\ direct.ok => tout = Return(direct.value)
            /\ (~direct.ok /\ fence.found /\ block.ok) => tout = Return(block.value)
            /\ (~direct.ok /\ ~fence.found /\ slice.ok) => tout = Return(slice.value)
            /\ (~direct.ok /\ fence.found /\ ~block.ok) =>
                   /\ tout.exc = "none"
                   /\ tout.value.error = FailedToParse(tool)
                   /\ tout.value.raw = s
            /\ (~direct.ok /\ ~fence.found /\ ~slice.ok) =>
                   /\ tout.exc = "none"
                   /\ tout.value.error = FailedToParse(tool)
                   /\ tout.value.raw = s

\* categorize_ticket got a reply whose fenced block is not valid JSON and
\* whose brace slice is, and returned its "Failed to parse" payload
C20_Witness ==
    /\ StructuredReplied
    /\ tool = "categorize_ticket"
    /\ FenceSearch(tllm.content).found
    /\ ~JsonLoads(FenceSearch(tllm.content).group).ok
    /\ BraceSliceParse(tllm.content).ok
    /\ tout.value.error = "Failed to parse structured categorization"

(***************************************************************************)
(* C21: process_email_batch terminates                                     *)
(***************************************************************************)
\* C21: process_email_batch reaches its completion point, after one pass
\* over the fetched list (the position in the list only moves forward, one
\* email at a time, and completion is reached at the end of the list), and
\* an exception raised by a step of an email is caught, not propagated:
\* the batch still completes at the end of the list.
C21_Terminates ==
    /\ <>(bpc = "done")
    /\ [][idx' \in {idx, idx + 1}]_vars
    /\ [](idx <= Len(emails))
    /\ [](bpc = "done" => idx = Len(emails) /\ \A k \in 1..Len(caught) : caught[k].pos <= idx)

\* the batch completed although a step of each of its emails raised
C21_Witness ==
    /\ bpc = "done"
    /\ Len(emails) >= 2
    /\ \A p \in Positions : CaughtAt(p)

(***************************************************************************)
(* C22: POST /process-email-batch only schedules the batch                 *)
(***************************************************************************)
\* the execution of process_email_batch for request r has started
BatchBegun(r) == tasks[r].pc \in {"suspended", "done"}

\* C22: the response {message: "Email batch processing started"} of a
\* request has been produced when its task is added, before any step of its
\* process_email_batch runs, and no later step of the batch, whatever its
\* outcome, changes it.
C22_RespondedBeforeBatch ==
    /\ [](\A r \in Requests :
            /\ tasks[r].pc # "none" => replies[r] = BatchStarted
            /\ replies[r] \in {NoReply, BatchStarted})
    /\ [][\A r \in Requests :
            /\ (replies[r] = NoReply /\ replies'[r] # NoReply) => ~BatchBegun(r)'
            /\ replies[r] # NoReply => replies'[r] = replies[r]]_vars

\* one batch fetched no email, or was suspended in the middle of its list,
\* or completed, each after its request was answered
C22_Witness ==
    /\ \E r \in Requests : tasks[r] = DoneTask /\ replies[r] = BatchStarted
    /\ \E r \in Requests :
          /\ tasks[r].pc = "suspended"
          /\ tasks[r].at = "create_entry"
          /\ tasks[r].idx >= 2
          /\ replies[r] = BatchStarted

(***************************************************************************)
(* C23: the customer contexts                                              *)
(***************************************************************************)
ContextKeys == {"tier", "lang"}

\* C23: update_customer_context(c, d) leaves c with an entry in which the
\* keys of d have d's values and the other keys their old values, and
\* last_updated is the current time whatever d holds for it; the contexts
\* of the other customers and the transcript are as they were.
\* get_customer_context returns the customer's context, an empty dict for a
\* customer without an entry, and changes neither the contexts nor the
\* transcript.
C23_ContextMerged ==
    [][/\ mcall'.op = "update_customer_context" =>
            LET c == mcall'.customer
                d == mcall'.data
            IN  /\ customer_contexts'[c].present
                /\ \A key \in ContextKeys :
                      customer_contexts'[c][key] =
                          IF d[key] # Absent THEN d[key] ELSE customer_contexts[c][key]
                /\ customer_contexts'[c].last_updated = Time(nops')
                /\ \A o \in Customers \ {c} : customer_contexts'[o] = customer_contexts[o]
                /\ messages' = messages
       /\ mcall'.op = "get_customer_context" =>
            LET c == mcall'.customer
            IN  /\ ~customer_contexts[c].present => mcall'.result = NoData
                /\ customer_contexts[c].present =>
                      /\ mcall'.result.last_updated = customer_contexts[c].last_updated
                      /\ \A key \in ContextKeys :
                            mcall'.result[key] = customer_contexts[c][key]
                /\ customer_contexts' = customer_contexts
                /\ messages' = messages]_vars

\* an update that gave its own last_updated and no lang went into a context
\* that had a lang: the lang is kept and last_updated is the current time
C23_Witness ==
    /\ mcall.op = "update_customer_context"
    /\ mcall.data = [tier |-> "gold", lang |-> Absent, last_updated |-> NoTime]
    /\ customer_contexts[mcall.customer].lang = "en"
    /\ customer_contexts[mcall.customer].tier = "gold"
    /\ customer_contexts[mcall.customer].last_updated = Time(nops)
    /\ \E o \in Customers : ~customer_contexts[o].present

(***************************************************************************)
(* C24: the type of what the structured tools return                       *)
(***************************************************************************)
\* C24: create_crm_entry, categorize_ticket and route_query return a dict
\* whatever the LLM replies, a reply that is valid JSON but not an object
\* included.
C24_StructuredToolsReturnDict ==
    (tpc = "returned" /\ tool \in StructuredTools) =>
        /\ tout.exc = "none"
        /\ tout.value.kind = "dict"

(***************************************************************************)
(* C25: the three copies of the extraction                                 *)
(***************************************************************************)
\* C25: for every reply the extractions of CRMEntryGenerator._run,
\* TicketRouter._run_categorization and TicketRouter._run_routing either all
\* produce the same parsed value, by the same strategy, or all fail.
C25_CopiesEquivalent ==
    jpc = "parsed" =>
        \A t, u \in ExtractionTools :
            /\ extracted[t].ok = extracted[u].ok
            /\ extracted[t].ok => extracted[t].value = extracted[u].value
            /\ extracted[t].via = extracted[u].via

\* a reply with text around a fenced block that parses, and with braces
\* outside the block: the three copies return the block's value
C25_Witness ==
    /\ jpc = "parsed"
    /\ Len(content) = MaxLen
    /\ content[1] = "{"
    /\ \A t \in ExtractionTools : extracted[t] = Parsed(NumValue, "fenced")

(***************************************************************************)
(* C26: a batch in which every invocation of the LLM raises                *)
(***************************************************************************)
\* C26: while every invocation of the LLM has raised, every email whose
\* processing has ended went through the whole workflow: it was taken for a
\* support request, one ticket was created for it with category "Unknown"
\* and priority "Medium", the error payload of create_crm_entry was
\* submitted as its CRM entry, it was marked as processed, and no exception
\* was caught for it.
C26_AllLlmCallsFail ==
    every_llm_raised =>
        \A p \in Positions :
            Finished(p) =>
                /\ ~CaughtAt(p)
                /\ SupportAt(p)
                /\ OpsOf(p) = WithTicket
                /\ Cardinality(TicketsOf(p)) = 1
                /\ \A k \in TicketsOf(p) :
                      /\ tickets[k].args.category = "Unknown"
                      /\ tickets[k].args.priority = "Medium"
                      /\ tickets[k].args.title = emails[p].subject
                /\ \E k \in 1..Len(submitted) :
                      /\ submitted[k].pos = p
                      /\ submitted[k].entry.kind = "dict"
                      /\ submitted[k].entry.customer_name = emails[p].sender
                      /\ submitted[k].entry.error = "Error generating CRM entry: llm error"
                /\ Len(MarksOf(p)) = 1

\* a batch of several emails completed with every invocation of the LLM
\* raising
C26_Witness ==
    /\ bpc = "done"
    /\ every_llm_raised
    /\ Len(emails) >= 2
    /\ Len(submitted) = Len(emails)

(***************************************************************************)
(* C27: marking and the results of the services                            *)
(***************************************************************************)
\* mark_as_processed is called in this step
Marking ==
    /\ Len(calls') = Len(calls) + 1
    /\ calls'[Len(calls')].op = "mark_as_processed"

\* C27: mark_as_processed is called for an email only when create_entry
\* returned an id for it and create_ticket, if it was called, returned an id.
C27_MarkedOnlyAfterSuccess ==
    [][Marking => (entry_id = "ok" /\ ticket_id \in {"none", "ok"})]_vars

(***************************************************************************)
(* C28: emails over several runs of the batch                              *)
(***************************************************************************)
\* C28: get_unprocessed_emails returns no email that was marked as processed
\* before, and no ticket and no CRM entry is created twice for one email.
C28_ProcessedNotFetchedAgain ==
    /\ rpc = "loop" => \A k \in fpos..Len(fetched) : fetched[k].id \notin marked
    /\ \A j, k \in 1..Len(created) :
          (j < k /\ created[j].op = created[k].op) => created[j].id # created[k].id

(***************************************************************************)
(* C29: a load that fails                                                  *)
(***************************************************************************)
\* the load of the file raises: the file is not JSON, or one of its message
\* records lacks its "type" or its "content"
LoadFails(f) ==
    \/ f.state = "corrupt"
    \/ f.state = "ok" /\ ReadableRecords(f.messages) # f.messages

\* C29: an AgentMemory constructed from a file whose load fails is empty: no
\* message in the transcript and no customer context.
C29_FailedLoadLeavesEmpty ==
    (mpc = "up" /\ lastWrite = "none" /\ LoadFails(file)) =>
        /\ messages = <<>>
        /\ customer_contexts = NoContexts

====
